---- MODULE Spec2Model ----
(***************************************************************************)
(* A model of thelper's transformation pipeline (thelper/transforms.py and *)
(* thelper.utils.safe_crop): the Compose pipeline and its invert, the      *)
(* bordered crop, CenterCrop, RandomResizedCrop, Affine, Transpose,        *)
(* Duplicator, Tile, the normalizations, the wrappers, Resize and          *)
(* load_transforms.                                                        *)
(*                                                                         *)
(* Each component has its own specification over its own variables; the    *)
(* variables of the other components stay at their idle value.             *)
(***************************************************************************)
EXTENDS Integers, Sequences, FiniteSets, TLC

VARIABLES
    transforms,   \* Compose.transforms: the pipeline, a sequence of operations
    csample,      \* the sample handed to Compose.__call__ / Compose.invert
    cpc,          \* "ready" before the call, "done" after it
    cres          \* what the call did: status, returned sample, error, ...

VARIABLES
    kimg,         \* the image handed to safe_crop / CenterCrop
    kargs,        \* the arguments of the call
    kpc,          \* "ready" before the call, then the name of the call made
    kres          \* what the call did: status, returned image, error

VARIABLES
    rargs,        \* the arguments given to RandomResizedCrop.__init__
    robj,         \* the RandomResizedCrop instance, or the error of its construction
    rimg,         \* the sample handed to RandomResizedCrop.__call__
    rpc,          \* position: "new", "built" / "failed", "loop", "crop", "done"
    rloop,        \* locals of __call__: attempt, target_width, target_height, ...
    rres          \* what the call did: status, returned image, error

VARIABLES
    aobj,         \* the Affine instance
    aimg,         \* the sample handed to Affine.__call__ / Affine.invert
    apc,          \* "ready", then "called", "inverted" or "roundtrip"
    afwd,         \* what Affine.__call__ did
    ares          \* what Affine.invert did

VARIABLES
    tobj,         \* the Transpose instance, or the error of its construction
    tarr,         \* the array handed to Transpose.__call__ / Transpose.invert
    tpc,          \* "ready", then "roundtrip" or "backtrip"
    tres          \* the array after the first and after the second transpose

VARIABLES
    dobj,         \* the Duplicator instance, or the error of its construction
    dsample,      \* the sample handed to Duplicator.__call__ / Duplicator.invert
    dpc,          \* "ready", then "called", "roundtrip" or "inverted"
    dres          \* what the calls did

VARIABLES
    tileobj,      \* the Tile instance
    tileimg,      \* the image handed to the Tile
    tilemask,     \* the mask handed to the Tile, or None
    tilepc,       \* "ready", then "tiled" or "inverted"
    tileres       \* what count_tiles, __call__ and invert did

VARIABLES
    nobj,         \* the NormalizeZeroMeanUnitVar / NormalizeMinMax instance
    nsample,      \* the sample handed to it: one value per channel
    npc,          \* "ready", then "roundtrip"
    nres          \* the sample after __call__ and after invert

VARIABLES
    wobj,         \* the ImageTransformWrapper / AugmentorWrapper instance
    wsamples,     \* the samples handed to its __call__
    wpc,          \* "ready", then "called"
    wres          \* what the call did: returned value, draws made, the caller's samples

VARIABLES
    zobj,         \* the Resize instance, with its dst buffer
    zimg,         \* the image handed to Resize.__call__
    zpc,          \* "ready", then "called"
    zres          \* what the call did

VARIABLES
    lstages,      \* the stages handed to load_transforms
    lpc,          \* "ready", then "loaded"
    lres          \* what load_transforms did

VARIABLES
    spipe,        \* the operation instances of one pipeline shared by the workers
    sbuilt,       \* the same instances as they were constructed
    swork,        \* per worker: its sample, the stages done, its value, the outcome
    sorder        \* the workers in the order in which they took their steps

composeVars == <<transforms, csample, cpc, cres>>
cropVars == <<kimg, kargs, kpc, kres>>
rrcVars == <<rargs, robj, rimg, rpc, rloop, rres>>
affineVars == <<aobj, aimg, apc, afwd, ares>>
transposeVars == <<tobj, tarr, tpc, tres>>
duplicatorVars == <<dobj, dsample, dpc, dres>>
tileVars == <<tileobj, tileimg, tilemask, tilepc, tileres>>
normalizeVars == <<nobj, nsample, npc, nres>>
wrapperVars == <<wobj, wsamples, wpc, wres>>
resizeVars == <<zobj, zimg, zpc, zres>>
loadVars == <<lstages, lpc, lres>>
sharedVars == <<spipe, sbuilt, swork, sorder>>

vars == <<transforms, csample, cpc, cres, kimg, kargs, kpc, kres,
          rargs, robj, rimg, rpc, rloop, rres, aobj, aimg, apc, afwd, ares,
          tobj, tarr, tpc, tres, dobj, dsample, dpc, dres,
          tileobj, tileimg, tilemask, tilepc, tileres, nobj, nsample, npc, nres,
          wobj, wsamples, wpc, wres, zobj, zimg, zpc, zres, lstages, lpc, lres,
          spipe, sbuilt, swork, sorder>>

\* what the calls of one component leave alone: the other components
firstVars == <<composeVars, cropVars, rrcVars, affineVars>>
notTranspose ==
    <<duplicatorVars, tileVars, normalizeVars, wrapperVars, resizeVars, loadVars,
      sharedVars>>
notDuplicator ==
    <<transposeVars, tileVars, normalizeVars, wrapperVars, resizeVars, loadVars,
      sharedVars>>
notTile ==
    <<transposeVars, duplicatorVars, normalizeVars, wrapperVars, resizeVars, loadVars,
      sharedVars>>
notNormalize ==
    <<transposeVars, duplicatorVars, tileVars, wrapperVars, resizeVars, loadVars,
      sharedVars>>
notWrapper ==
    <<transposeVars, duplicatorVars, tileVars, normalizeVars, resizeVars, loadVars,
      sharedVars>>
notResize ==
    <<transposeVars, duplicatorVars, tileVars, normalizeVars, wrapperVars, loadVars,
      sharedVars>>
notLoad ==
    <<transposeVars, duplicatorVars, tileVars, normalizeVars, wrapperVars, resizeVars,
      sharedVars>>
notShared ==
    <<transposeVars, duplicatorVars, tileVars, normalizeVars, wrapperVars, resizeVars,
      loadVars>>
secondVars == <<transposeVars, notTranspose>>
notCompose == <<cropVars, rrcVars, affineVars, secondVars>>
notCrop == <<composeVars, rrcVars, affineVars, secondVars>>
notRRC == <<composeVars, cropVars, affineVars, secondVars>>
notAffine == <<composeVars, cropVars, rrcVars, secondVars>>

(***************************************************************************)
(* Bounds of the model.                                                    *)
(***************************************************************************)
MaxLen == 3      \* longest pipeline
MaxCount == 2    \* largest Duplicator count
MaxDim == 3      \* largest image height and width
MaxPad == 2      \* how far outside the image a crop corner may lie
MaxAttempts == 2 \* largest random_attempts of a RandomResizedCrop
MaxShift == 1    \* largest translation of an Affine, in pixels

MaxAxes == 3     \* largest number of axes of a transposed array
MaxExtent == 2   \* largest extent of an axis of a transposed array
MantissaBits == 4 \* significand bits of the floating out_type (np.float32 has 24)
MaxValue == 7    \* largest channel value of a normalized sample
MaxStages == 2   \* longest pipeline shared by two workers
(***************************************************************************)
(* Samples of the pipeline.  A sample is an image (shape <<>>), a list of  *)
(* n samples (shape <<n>> \o shape of the elements); hist records, in      *)
(* order, which operation of the pipeline touched it and in what direction.*)
(***************************************************************************)
RECURSIVE Rev(_)
Rev(s) == IF s = <<>> THEN <<>> ELSE Append(Rev(Tail(s)), Head(s))

\* <<hi, hi-1, ..., lo>>
RECURSIVE Down(_, _)
Down(hi, lo) == IF hi < lo THEN <<>> ELSE <<hi>> \o Down(hi - 1, lo)

\* <<lo, lo+1, ..., hi>>
Up(lo, hi) == Rev(Down(hi, lo))

NoneVal == [tag |-> "none"]

OpKinds == {"NormalizeMinMax", "Duplicator", "CenterCrop", "ImageTransformWrapper"}

Operations ==
    {[kind |-> k, count |-> 0] : k \in OpKinds \ {"Duplicator"}}
    \cup {[kind |-> "Duplicator", count |-> c] : c \in 1..MaxCount}

\* hasattr(t, "invert"): the wrappers (and torchvision's operations) define none
HasInvert(t) == t.kind # "ImageTransformWrapper"

Ok(s) == [ok |-> TRUE, sample |-> s, err |-> "none"]
Raise(e) == [ok |-> FALSE, sample |-> NoneVal, err |-> e]

\* t.invert(sample), t being the operation at position i of the pipeline
OpInvert(t, i, s) ==
    CASE t.kind = "NormalizeMinMax" ->
            \* (sample * diff + min).astype(out_type): an array, whatever came in
            Ok([shape |-> <<>>, hist |-> Append(s.hist, <<"invert", i>>)])
      [] t.kind = "Duplicator" ->
            IF s.shape = <<>> THEN Raise("invalid sample type (should be list)")
            ELSE IF Head(s.shape) # t.count THEN Raise("invalid sample list length")
            ELSE Ok([shape |-> Tail(s.shape), hist |-> Append(s.hist, <<"invert", i>>)])
      [] t.kind = "CenterCrop" -> Raise("cannot be inverted")
      [] OTHER -> Raise("AttributeError")

\* t(sample), t being the operation at position i of the pipeline
OpCall(t, i, s) ==
    CASE t.kind = "NormalizeMinMax" ->
            Ok([shape |-> <<>>, hist |-> Append(s.hist, <<"call", i>>)])
      [] t.kind = "Duplicator" ->
            Ok([shape |-> <<t.count>> \o s.shape, hist |-> Append(s.hist, <<"call", i>>)])
      [] t.kind = "CenterCrop" ->
            \* sample.ndim: a list has none
            IF s.shape # <<>> THEN Raise("AttributeError")
            ELSE Ok([shape |-> <<>>, hist |-> Append(s.hist, <<"call", i>>)])
      [] OTHER ->
            \* ImageTransformWrapper: an image or a list of images
            IF Len(s.shape) > 1 THEN Raise("unexpected input sample type")
            ELSE Ok([shape |-> s.shape, hist |-> Append(s.hist, <<"call", i>>)])

\* The loop of Compose.invert, at position k of reversed(self.transforms);
\* applied lists the positions whose invert has returned so far.
RECURSIVE ComposeInvertLoopEager(_, _, _, _)
ComposeInvertLoopEager(ts, k, s, applied) ==
    IF \E j \in 1..Len(ts) : ~HasInvert(ts[j])
    THEN LET j == CHOOSE j \in 1..Len(ts) :
                      ~HasInvert(ts[j]) /\ \A m \in (j+1)..Len(ts) : HasInvert(ts[m])
         IN [status |-> "raised", ret |-> {}, err |-> "missing invert op", at |-> j,
             applied |-> applied]
    ELSE IF k = 0
    THEN [status |-> "returned", ret |-> {s}, err |-> "none", at |-> 0, applied |-> applied]
    ELSE LET r == OpInvert(ts[k], k, s)
         IN IF r.ok
            THEN ComposeInvertLoopEager(ts, k - 1, r.sample, Append(applied, k))
            ELSE [status |-> "raised", ret |-> {}, err |-> r.err, at |-> k,
                  applied |-> applied]

RECURSIVE ComposeInvertLoopSkip(_, _, _, _)
ComposeInvertLoopSkip(ts, k, s, applied) ==
    IF k = 0
    THEN [status |-> "returned", ret |-> {s}, err |-> "none", at |-> 0, applied |-> applied]
    ELSE IF ~HasInvert(ts[k])
    THEN ComposeInvertLoopSkip(ts, k - 1, s, applied)
    ELSE LET r == OpInvert(ts[k], k, s)
         IN IF r.ok
            THEN ComposeInvertLoopSkip(ts, k - 1, r.sample, Append(applied, k))
            ELSE [status |-> "raised", ret |-> {}, err |-> r.err, at |-> k,
                  applied |-> applied]

\* Compose.invert walking the pipeline in construction order
RECURSIVE ComposeInvertLoopForward(_, _, _, _)
ComposeInvertLoopForward(ts, k, s, applied) ==
    IF k = 0
    THEN [status |-> "returned", ret |-> {s}, err |-> "none", at |-> 0, applied |-> applied]
    ELSE LET i == Len(ts) - k + 1
             r == OpInvert(ts[i], i, s)
         IN IF ~HasInvert(ts[i])
            THEN [status |-> "raised", ret |-> {}, err |-> "missing invert op", at |-> i,
                  applied |-> applied]
            ELSE IF r.ok
            THEN ComposeInvertLoopForward(ts, k - 1, r.sample, Append(applied, i))
            ELSE [status |-> "raised", ret |-> {}, err |-> r.err, at |-> i,
                  applied |-> applied]

RECURSIVE ComposeInvertLoop(_, _, _, _)
ComposeInvertLoop(ts, k, s, applied) ==
    IF k = 0
    THEN [status |-> "returned", ret |-> {s}, err |-> "none", at |-> 0, applied |-> applied]
    ELSE IF ~HasInvert(ts[k])
    THEN [status |-> "raised", ret |-> {}, err |-> "missing invert op", at |-> k,
          applied |-> applied]
    ELSE LET r == OpInvert(ts[k], k, s)
         IN IF r.ok
            THEN ComposeInvertLoop(ts, k - 1, r.sample, Append(applied, k))
            ELSE [status |-> "raised", ret |-> {}, err |-> r.err, at |-> k,
                  applied |-> applied]

\* The order in which Compose.invert walks the pipeline: reversed(self.transforms)
InvertStart(ts) == Len(ts)

\* The loop of Compose.__call__ (torchvision): for t in self.transforms
RECURSIVE ComposeCallLoop(_, _, _, _)
ComposeCallLoop(ts, k, s, applied) ==
    IF k > Len(ts)
    THEN [status |-> "returned", ret |-> {s}, err |-> "none", at |-> 0, applied |-> applied]
    ELSE LET r == OpCall(ts[k], k, s)
         IN IF r.ok
            THEN ComposeCallLoop(ts, k + 1, r.sample, Append(applied, k))
            ELSE [status |-> "raised", ret |-> {}, err |-> r.err, at |-> k,
                  applied |-> applied]

NoResult == [status |-> "none", ret |-> {}, err |-> "none", at |-> 0, applied |-> <<>>]

Pipelines == UNION {[1..n -> Operations] : n \in 0..MaxLen}

SampleShapes == {<<>>} \cup {<<n>> : n \in 1..(MaxCount + 1)}

ComposeInit ==
    /\ transforms \in Pipelines
    /\ csample \in {[shape |-> sh, hist |-> <<>>] : sh \in SampleShapes}
    /\ cpc = "ready"
    /\ cres = NoResult

ComposeIdle ==
    /\ transforms = <<>>
    /\ csample = NoneVal
    /\ cpc = "idle"
    /\ cres = NoResult

\* Compose.invert(sample)
ComposeInvert ==
    /\ cpc = "ready"
    /\ cres' = ComposeInvertLoop(transforms, InvertStart(transforms), csample, <<>>)
    /\ cpc' = "inverted"
    /\ UNCHANGED <<transforms, csample>>
    /\ UNCHANGED notCompose

\* Compose.__call__(sample)
ComposeCall ==
    /\ cpc = "ready"
    /\ cres' = ComposeCallLoop(transforms, 1, csample, <<>>)
    /\ cpc' = "called"
    /\ UNCHANGED <<transforms, csample>>
    /\ UNCHANGED notCompose

ComposeNext == ComposeInvert \/ ComposeCall

(***************************************************************************)
(* Python numbers: an int n (d = 1) or a float n/d.                        *)
(***************************************************************************)
PyInt(n) == [k |-> "int", n |-> n, d |-> 1]
PyFloat(n, d) == [k |-> "float", n |-> n, d |-> d]
IsFloat(x) == x.k = "float"
IsInt(x) == x.k = "int"

\* int(round(n/d)): Python rounds halves to the even neighbour
RoundHalfEven(n, d) ==
    LET q == n \div d
        r == n % d
    IN IF 2 * r < d THEN q
       ELSE IF 2 * r > d THEN q + 1
       ELSE IF q % 2 = 0 THEN q ELSE q + 1

Max(a, b) == IF a >= b THEN a ELSE b
Min(a, b) == IF a <= b THEN a ELSE b

(***************************************************************************)
(* Images: numpy arrays of shape (h, w[, channels]); px[<<r, c>>], with    *)
(* 1 <= r <= h and 1 <= c <= w, is the pixel at row r-1, column c-1.       *)
(***************************************************************************)
MkImage(nd, h, w, px) == [ndim |-> nd, h |-> h, w |-> w, px |-> px]

Pixels(h, w) == (1..h) \X (1..w)

\* the pixel of the test image at row r-1, column c-1: all pixels differ
OwnPixel(r, c) == 100 * r + c

TestImage(nd, h, w) == MkImage(nd, h, w, [p \in Pixels(h, w) |-> OwnPixel(p[1], p[2])])

BorderVal == 0

\* the pixel of img at (r, c), 1-based, which may lie outside of it
BorderPixel(img, r, c, bordertype, borderval) ==
    IF r \in 1..img.h /\ c \in 1..img.w THEN img.px[<<r, c>>]
    ELSE IF bordertype = "BORDER_CONSTANT" THEN borderval
    ELSE \* BORDER_REPLICATE: the nearest pixel of the image
         img.px[<<Max(1, Min(r, img.h)), Max(1, Min(c, img.w))>>]

\* cv.copyMakeBorder(image, top, bottom, left, right, borderType, value)
CopyMakeBorder(img, top, bottom, left, right, bordertype, borderval) ==
    LET h == img.h + top + bottom
        w == img.w + left + right
    IN MkImage(img.ndim, h, w,
               [p \in Pixels(h, w) |->
                   BorderPixel(img, p[1] - top, p[2] - left, bordertype, borderval)])

\* where a[lo:hi] starts and stops on an axis of length n
SliceBound(i, n) == IF i < 0 THEN Max(i + n, 0) ELSE Min(i, n)

\* image[r0:r1, c0:c1, ...]
Slice2D(img, r0, r1, c0, c1) ==
    LET rs == SliceBound(r0, img.h)
        re == Max(SliceBound(r1, img.h), rs)
        cs == SliceBound(c0, img.w)
        ce == Max(SliceBound(c1, img.w), cs)
    IN MkImage(img.ndim, re - rs, ce - cs,
               [p \in Pixels(re - rs, ce - cs) |-> img.px[<<rs + p[1], cs + p[2]>>]])

\* safe_crop that pads but leaves br where it was
SafeCropNoShift(image, tl, br, bordertype, borderval) ==
    IF tl[1] < 0 \/ tl[2] < 0 \/ br[1] > image.w \/ br[2] > image.h
    THEN LET padded == CopyMakeBorder(image, Max(-tl[2], 0), Max(br[2] - image.h, 0),
                                      Max(-tl[1], 0), Max(br[1] - image.w, 0),
                                      bordertype, borderval)
             tl0 == IF tl[1] < 0 THEN 0 ELSE tl[1]
             tl1 == IF tl[2] < 0 THEN 0 ELSE tl[2]
         IN Slice2D(padded, tl1, br[2], tl0, br[1])
    ELSE Slice2D(image, tl[2], br[2], tl[1], br[1])

\* thelper.utils.safe_crop(image, tl, br, bordertype, borderval); tl, br are <<x, y>>
SafeCrop(image, tl, br, bordertype, borderval) ==
    IF tl[1] < 0 \/ tl[2] < 0 \/ br[1] > image.w \/ br[2] > image.h
    THEN LET padded == CopyMakeBorder(image, Max(-tl[2], 0), Max(br[2] - image.h, 0),
                                      Max(-tl[1], 0), Max(br[1] - image.w, 0),
                                      bordertype, borderval)
             br0 == IF tl[1] < 0 THEN br[1] - tl[1] ELSE br[1]
             tl0 == IF tl[1] < 0 THEN 0 ELSE tl[1]
             br1 == IF tl[2] < 0 THEN br[2] - tl[2] ELSE br[2]
             tl1 == IF tl[2] < 0 THEN 0 ELSE tl[2]
         IN Slice2D(padded, tl1, br1, tl0, br0)
    ELSE Slice2D(image, tl[2], br[2], tl[1], br[1])

(***************************************************************************)
(* CenterCrop                                                              *)
(***************************************************************************)
\* the relative sizes tried: 0.25, 0.5, 0.75, 1.0 (exact as floats)
Fractions == {PyFloat(1, 4), PyFloat(1, 2), PyFloat(3, 4), PyFloat(1, 1)}

\* CenterCrop.__init__(size, bordertype, borderval), size a pair (width, height)
CenterCropInit(size, bordertype, borderval) ==
    IF size[1].n <= 0 \/ size[2].n <= 0
    THEN [ok |-> FALSE, err |-> "crop dimensions must be positive"]
    ELSE [ok |-> TRUE, err |-> "none", size |-> size, relative |-> IsFloat(size[1]),
          bordertype |-> bordertype, borderval |-> borderval]

\* a crop box centred on the middle of the free space
CenterCropBoxHalfDiff(op, H, W) ==
    LET crop_height == IF op.relative THEN RoundHalfEven(op.size[2].n * H, op.size[2].d)
                       ELSE op.size[2].n
        crop_width == IF op.relative THEN RoundHalfEven(op.size[1].n * W, op.size[1].d)
                      ELSE op.size[1].n
        tl == <<(W - crop_width) \div 2, (H - crop_height) \div 2>>
    IN [tl |-> tl, br |-> <<tl[1] + crop_width, tl[2] + crop_height>>]

\* the crop box of CenterCrop.__call__ on an H x W image: corners tl, br as <<x, y>>
CenterCropBox(op, H, W) ==
    LET crop_height == IF op.relative THEN RoundHalfEven(op.size[2].n * H, op.size[2].d)
                       ELSE op.size[2].n
        crop_width == IF op.relative THEN RoundHalfEven(op.size[1].n * W, op.size[1].d)
                      ELSE op.size[1].n
        tl == <<W \div 2 - crop_width \div 2, H \div 2 - crop_height \div 2>>
    IN [tl |-> tl, br |-> <<tl[1] + crop_width, tl[2] + crop_height>>]

\* CenterCrop.__call__(sample)
CenterCropApply(op, sample) ==
    IF sample.ndim < 2 \/ sample.ndim > 3
    THEN [status |-> "raised", ret |-> {}, err |-> "bad input dimensions"]
    ELSE LET box == CenterCropBox(op, sample.h, sample.w)
         IN [status |-> "returned",
             ret |-> {SafeCrop(sample, box.tl, box.br, op.bordertype, op.borderval)},
             err |-> "none"]

(***************************************************************************)
(* RandomResizedCrop                                                       *)
(***************************************************************************)
PyNone == [k |-> "none", n |-> 0, d |-> 1]
PyTuple(items) == [k |-> "tuple", items |-> items]
PyList(items) == [k |-> "list", items |-> items]
IsSeq(x) == x.k \in {"tuple", "list"}
IsNum(x) == x.k \in {"int", "float"}

\* a < b, a <= b on Python numbers
NumLess(a, b) == a.n * b.d < b.n * a.d
NumLeq(a, b) == a.n * b.d <= b.n * a.d
\* min(a, b), max(a, b): the first argument wins a tie
NumMin(a, b) == IF NumLess(b, a) THEN b ELSE a
NumMax(a, b) == IF NumLess(a, b) THEN b ELSE a

AllOfKind(items, kind) == \A i \in 1..Len(items) : items[i].k = kind

\* (isinstance(s, float) and 0 < s <= 1) or (isinstance(s, int) and s > 0)
ValidSizeValue(x) ==
    \/ (IsFloat(x) /\ x.n > 0 /\ x.n <= x.d)
    \/ (IsInt(x) /\ x.n > 0)

Fail(e) == [ok |-> FALSE, err |-> e]

\* lines 561-573: self.output_size
RRCOutputSize(output_size) ==
    IF IsSeq(output_size)
    THEN IF Len(output_size.items) # 2
         THEN Fail("expected output size to be two-element list or tuple, or single scalar")
         ELSE IF ~AllOfKind(output_size.items, "int") /\ ~AllOfKind(output_size.items, "float")
         THEN Fail("expected output size pair elements to be the same type (int or float)")
         ELSE IF \E i \in 1..2 : ~ValidSizeValue(output_size.items[i])
         THEN Fail("invalid output size value")
         ELSE [ok |-> TRUE, err |-> "none", v |-> output_size.items]
    ELSE IF IsNum(output_size)
    THEN IF ~ValidSizeValue(output_size)
         THEN Fail("invalid output size value")
         ELSE [ok |-> TRUE, err |-> "none", v |-> <<output_size, output_size>>]
    ELSE Fail("unexpected output size type (need tuple/list/int/float)")

\* lines 574-600: self.input_size and self.ratio
RRCInputSize(input_size, ratio) ==
    IF ~IsSeq(input_size) \/ Len(input_size.items) # 2
    THEN Fail("expected input size to be provided as a pair of elements or a pair of tuples/lists")
    ELSE LET it == input_size.items IN
    IF AllOfKind(it, "int") \/ AllOfKind(it, "float")
    THEN LET isz == PyTuple(<<PyTuple(<<NumMin(it[1], it[2]), NumMin(it[1], it[2])>>),
                             PyTuple(<<NumMax(it[1], it[2]), NumMax(it[1], it[2])>>)>>)
         IN IF IsSeq(ratio)
            THEN IF Len(ratio.items) # 2
                 THEN Fail("invalid ratio tuple/list length (expected two elements)")
                 ELSE IF ~AllOfKind(ratio.items, "float")
                 THEN Fail("expected ratio pair elements to be float values")
                 ELSE [ok |-> TRUE, err |-> "none", input_size |-> isz,
                       ratio |-> PyTuple(<<NumMin(ratio.items[1], ratio.items[2]),
                                           NumMax(ratio.items[1], ratio.items[2])>>)]
            ELSE IF IsFloat(ratio)
            THEN [ok |-> TRUE, err |-> "none", input_size |-> isz,
                  ratio |-> PyTuple(<<ratio, ratio>>)]
            ELSE Fail("invalid aspect ratio, expected 2-element tuple/list or single float")
    ELSE IF \/ \A i \in 1..2 : it[i].k = "tuple" /\ Len(it[i].items) = 2
            \/ \A i \in 1..2 : it[i].k = "list" /\ Len(it[i].items) = 2
    THEN IF IsSeq(ratio) /\ Len(ratio.items) # 0
         THEN Fail("cannot specify input sizes in two-element tuples/lists and also provide aspect ratios")
         ELSE IF \E i \in 1..2, j \in 1..2 : ~IsNum(it[i].items[j])
         THEN Fail("input sizes should all be same type, either int or float")
         ELSE [ok |-> TRUE, err |-> "none",
               input_size |-> PyTuple(<<NumMin(it[1].items[1], it[2].items[1]),
                                        NumMin(it[1].items[2], it[2].items[2]),
                                        NumMax(it[1].items[1], it[2].items[1]),
                                        NumMax(it[1].items[2], it[2].items[2])>>),
               ratio |-> PyNone]
    ELSE Fail("expected input size to be two-elem list/tuple of int/float")

\* lines 601-604: for t in self.input_size: for s in t: ...
RRCCheckInputSize(isz) ==
    IF \E i \in 1..Len(isz.items) : ~IsSeq(isz.items[i])
    THEN Fail("TypeError: object is not iterable")
    ELSE IF \E i \in 1..Len(isz.items) : \E j \in 1..Len(isz.items[i].items) :
               ~ValidSizeValue(isz.items[i].items[j])
    THEN Fail("invalid input size value")
    ELSE [ok |-> TRUE, err |-> "none"]

\* RandomResizedCrop.__init__
RRCInit(output_size, input_size, ratio, probability, random_attempts) ==
    LET o == RRCOutputSize(output_size)
        i == RRCInputSize(input_size, ratio)
    IN IF ~o.ok THEN o
       ELSE IF ~i.ok THEN i
       ELSE IF ~RRCCheckInputSize(i.input_size).ok THEN RRCCheckInputSize(i.input_size)
       ELSE IF probability.n < 0 \/ probability.n > probability.d
       THEN Fail("invalid probability value (should be in [0,1]")
       ELSE IF random_attempts <= 0
       THEN Fail("invalid random_attempts value (should be > 0)")
       ELSE [ok |-> TRUE, err |-> "none", output_size |-> o.v, input_size |-> i.input_size,
             ratio |-> i.ratio, probability |-> probability,
             random_attempts |-> random_attempts]

\* np.random.uniform(lo, hi) = lo + (hi - lo) * u for a draw u = <<un, ud>> of [0, 1]
Uniform(lo, hi, u) ==
    [n |-> lo.n * hi.d * u[2] + (hi.n * lo.d - lo.n * hi.d) * u[1],
     d |-> lo.d * hi.d * u[2]]

\* the draws of the unit interval the model tries: 0, 1/2 and (by rounding) 1
UnitDraws == {<<0, 1>>, <<1, 2>>, <<1, 1>>}

\* int(round(math.sqrt(n / d))), n >= 0, d > 0
RoundSqrt(n, d) ==
    LET k0 == CHOOSE k \in 0..(n \div d + 1) :
                  /\ 4 * n < (2 * k + 1) * (2 * k + 1) * d
                  /\ \A j \in 0..(k - 1) : 4 * n >= (2 * j + 1) * (2 * j + 1) * d
    IN IF k0 > 0 /\ 4 * n = (2 * k0 - 1) * (2 * k0 - 1) * d /\ (k0 - 1) % 2 = 0
       THEN k0 - 1 ELSE k0

\* lines 630-650: the region size <<width, height>> of one sampling attempt on
\* an H x W image; ua, ur, uh are draws of the unit interval, swap a coin
RRCTargetSize(op, H, W, ua, ur, uh, swap) ==
    IF op.ratio.k = "none"
    THEN LET lo == op.input_size.items[1]
             hi == op.input_size.items[2]
             tw == Uniform(lo.items[1], hi.items[1], ua)
             th == Uniform(lo.items[2], hi.items[2], uh)
         IN IF IsFloat(lo.items[1])
            THEN <<RoundHalfEven(tw.n * W, tw.d), RoundHalfEven(th.n * H, th.d)>>
            ELSE <<RoundHalfEven(tw.n, tw.d), RoundHalfEven(th.n, th.d)>>
    ELSE LET lo == op.input_size.items[1].items[1]
             hi == op.input_size.items[2].items[1]
             a == Uniform(lo, hi, ua)
             target_area == IF IsFloat(lo) THEN [n |-> a.n * H * W, d |-> a.d]
                            ELSE [n |-> a.n * a.n, d |-> a.d * a.d]
             aspect_ratio == Uniform(op.ratio.items[1], op.ratio.items[2], ur)
             tw == RoundSqrt(target_area.n * aspect_ratio.n, target_area.d * aspect_ratio.d)
             th == RoundSqrt(target_area.n * aspect_ratio.d, target_area.d * aspect_ratio.n)
         IN IF swap THEN <<th, tw>> ELSE <<tw, th>>

\* randint taking its upper bound as inclusive
RandIntInclusive(n) == Min(0, n)..(Max(0, n) + 1)

\* np.random.randint(min(0, n), max(0, n) + 1)
RandInt(n) == Min(0, n)..Max(0, n)

\* line 655: "if image_height is None or image_width is None"
RRCTakesFallback(image_height, image_width) ==
    image_height.k = "none" \/ image_width.k = "none"

\* lines 661-668: the (width, height) handed to cv.resize
RRCOutputDimsSwapped(op, H, W) ==
    IF IsFloat(op.output_size[1])
    THEN <<RoundHalfEven(op.output_size[2].n * H, op.output_size[2].d),
           RoundHalfEven(op.output_size[1].n * W, op.output_size[1].d)>>
    ELSE <<op.output_size[2].n, op.output_size[1].n>>

RRCOutputDims(op, H, W) ==
    IF IsFloat(op.output_size[1])
    THEN <<RoundHalfEven(op.output_size[1].n * W, op.output_size[1].d),
           RoundHalfEven(op.output_size[2].n * H, op.output_size[2].d)>>
    ELSE <<op.output_size[1].n, op.output_size[2].n>>

\* cv.resize(src, (w, h), interpolation=cv.INTER_NEAREST)
CvResize(src, w, h) ==
    IF src.h = 0 \/ src.w = 0 \/ w <= 0 \/ h <= 0
    THEN [status |-> "raised", ret |-> {}, err |-> "cv2.error"]
    ELSE [status |-> "returned",
          ret |-> {MkImage(src.ndim, h, w,
                           [p \in Pixels(h, w) |->
                               src.px[<<Min(((p[1] - 1) * src.h) \div h, src.h - 1) + 1,
                                        Min(((p[2] - 1) * src.w) \div w, src.w - 1) + 1>>]])},
          err |-> "none"]

\* lines 655-668: what follows the sampling loop
RRCFinish(op, sample, t) ==
    LET fallback == RRCTakesFallback(PyInt(sample.h), PyInt(sample.w))
        side == Min(sample.h, sample.w)
        tw == IF fallback THEN PyInt(side) ELSE t.width
        th == IF fallback THEN PyInt(side) ELSE t.height
        col == IF fallback THEN PyInt((sample.w - side) \div 2) ELSE t.col
        row == IF fallback THEN PyInt((sample.h - side) \div 2) ELSE t.row
        out == RRCOutputDims(op, sample.h, sample.w)
    IN IF col.k = "none" \/ row.k = "none" \/ tw.k = "none" \/ th.k = "none"
       THEN [status |-> "raised", ret |-> {},
             err |-> "TypeError: unsupported operand type(s) for +: NoneType and int"]
       ELSE CvResize(SafeCrop(sample, <<col.n, row.n>>, <<col.n + tw.n, row.n + th.n>>,
                              "BORDER_CONSTANT", BorderVal),
                     out[1], out[2])

(***************************************************************************)
(* The crop specification: one call of safe_crop or of a CenterCrop on an  *)
(* image of any size up to MaxDim x MaxDim.                                *)
(***************************************************************************)
BorderTypes == {"BORDER_CONSTANT", "BORDER_REPLICATE"}

NoImageResult == [status |-> "none", ret |-> {}, err |-> "none"]

CropInit ==
    /\ kimg \in {TestImage(nd, h, w) : nd \in 2..4, h \in 1..MaxDim, w \in 1..MaxDim}
    /\ kargs = NoneVal
    /\ kpc = "ready"
    /\ kres = NoImageResult

CropIdle ==
    /\ kimg = NoneVal
    /\ kargs = NoneVal
    /\ kpc = "idle"
    /\ kres = NoImageResult

\* a call of safe_crop with corners inside, across or outside the image
SafeCropCall ==
    /\ kpc = "ready"
    /\ kimg.ndim <= 3
    /\ \E x0 \in (-MaxPad - 1)..(MaxDim + 1), y0 \in (-MaxPad - 1)..(MaxDim + 1),
          cw \in 0..(MaxPad + 1), ch \in 0..(MaxPad + 1), bt \in BorderTypes :
          /\ kargs' = [tl |-> <<x0, y0>>, br |-> <<x0 + cw, y0 + ch>>,
                       bordertype |-> bt, borderval |-> BorderVal]
          /\ kres' = [status |-> "returned",
                      ret |-> {SafeCrop(kimg, <<x0, y0>>, <<x0 + cw, y0 + ch>>, bt, BorderVal)},
                      err |-> "none"]
    /\ kpc' = "safe_crop"
    /\ UNCHANGED kimg
    /\ UNCHANGED notCrop

CropSizes ==
    {<<PyInt(w), PyInt(h)>> : w \in 1..(MaxDim + MaxPad), h \in 1..(MaxDim + MaxPad)}
    \cup {<<fw, fh>> : fw \in Fractions, fh \in Fractions}

\* CenterCrop(size, bordertype, borderval)(sample)
CenterCropCall ==
    /\ kpc = "ready"
    /\ \E size \in CropSizes, bt \in BorderTypes :
          LET op == CenterCropInit(size, bt, BorderVal)
          IN /\ op.ok
             /\ kargs' = op
             /\ kres' = CenterCropApply(op, kimg)
    /\ kpc' = "CenterCrop"
    /\ UNCHANGED kimg
    /\ UNCHANGED notCrop

CropNext == SafeCropCall \/ CenterCropCall

(***************************************************************************)
(* The RandomResizedCrop specification: construction, then one call on an  *)
(* image of any size up to MaxDim x MaxDim, one sampling attempt per step. *)
(***************************************************************************)
NoLoop == [gate |-> "none", attempt |-> 0, width |-> PyNone, height |-> PyNone,
           col |-> PyNone, row |-> PyNone]

RRCStart ==
    /\ rargs = NoneVal
    /\ robj = NoneVal
    /\ rimg \in {TestImage(3, h, w) : h \in 1..MaxDim, w \in 1..MaxDim}
    /\ rpc = "new"
    /\ rloop = NoLoop
    /\ rres = NoImageResult

RRCIdle ==
    /\ rargs = NoneVal
    /\ robj = NoneVal
    /\ rimg = NoneVal
    /\ rpc = "idle"
    /\ rloop = NoLoop
    /\ rres = NoImageResult

OutputSizeArgs ==
    {PyInt(2), PyTuple(<<PyInt(3), PyInt(1)>>), PyTuple(<<PyFloat(1, 2), PyFloat(1, 1)>>),
     PyInt(0)}

InputSizeArgs ==
    {PyTuple(<<PyFloat(1, 4), PyFloat(1, 1)>>),
     PyTuple(<<PyInt(1), PyInt(2)>>),
     PyTuple(<<PyInt(MaxDim + 1), PyInt(MaxDim + 1)>>),
     PyTuple(<<PyTuple(<<PyInt(1), PyInt(1)>>), PyTuple(<<PyInt(2), PyInt(2)>>)>>),
     PyList(<<PyList(<<PyFloat(1, 2), PyFloat(1, 2)>>), PyList(<<PyFloat(1, 1), PyFloat(1, 1)>>)>>)}

RatioArgs == {PyNone, PyFloat(1, 1), PyTuple(<<PyFloat(1, 2), PyFloat(2, 1)>>)}

ProbabilityArgs == {PyFloat(1, 2), PyFloat(1, 1)}

\* RandomResizedCrop(output_size, input_size, ratio, probability, random_attempts)
RRCConstruct ==
    /\ rpc = "new"
    /\ \E o \in OutputSizeArgs, i \in InputSizeArgs, r \in RatioArgs,
          p \in ProbabilityArgs, n \in 1..MaxAttempts :
          /\ rargs' = [output_size |-> o, input_size |-> i, ratio |-> r,
                       probability |-> p, random_attempts |-> n]
          /\ robj' = RRCInit(o, i, r, p, n)
          /\ rpc' = IF RRCInit(o, i, r, p, n).ok THEN "built" ELSE "failed"
    /\ UNCHANGED <<rimg, rloop, rres>>
    /\ UNCHANGED notRRC

\* __call__, lines 622-628: the probability gate
RRCGate ==
    /\ rpc = "built"
    /\ \/ /\ NumLess(robj.probability, PyInt(1))
          /\ \E u \in UnitDraws :
                IF NumLess(robj.probability, PyFloat(u[1], u[2]))
                THEN /\ rres' = [status |-> "returned", ret |-> {rimg}, err |-> "none"]
                     /\ rloop' = [rloop EXCEPT !.gate = "skipped"]
                     /\ rpc' = "done"
                ELSE /\ rloop' = [rloop EXCEPT !.gate = "applied"]
                     /\ rpc' = "loop"
                     /\ UNCHANGED rres
       \/ /\ ~NumLess(robj.probability, PyInt(1))
          /\ rloop' = [rloop EXCEPT !.gate = "applied"]
          /\ rpc' = "loop"
          /\ UNCHANGED rres
    /\ UNCHANGED <<rargs, robj, rimg>>
    /\ UNCHANGED notRRC

\* __call__, lines 629-654: one pass of "for attempt in range(self.random_attempts)"
RRCAttempt ==
    /\ rpc = "loop"
    /\ rloop.attempt < robj.random_attempts
    /\ \E ua \in UnitDraws, ur \in UnitDraws, uh \in UnitDraws, swap \in BOOLEAN :
          LET t == RRCTargetSize(robj, rimg.h, rimg.w, ua, ur, uh, swap)
          IN IF t[1] <= rimg.w /\ t[2] <= rimg.h
             THEN /\ \E c \in RandInt(rimg.w - t[1]), r \in RandInt(rimg.h - t[2]) :
                        rloop' = [rloop EXCEPT !.width = PyInt(t[1]), !.height = PyInt(t[2]),
                                               !.col = PyInt(c), !.row = PyInt(r)]
                  /\ rpc' = "crop"
             ELSE /\ rloop' = [rloop EXCEPT !.width = PyInt(t[1]), !.height = PyInt(t[2]),
                                            !.attempt = @ + 1]
                  /\ rpc' = IF rloop.attempt + 1 = robj.random_attempts
                            THEN "crop" ELSE "loop"
    /\ UNCHANGED <<rargs, robj, rimg, rres>>
    /\ UNCHANGED notRRC

\* __call__, lines 655-668: fallback test, crop and resize
RRCCropResize ==
    /\ rpc = "crop"
    /\ rres' = RRCFinish(robj, rimg, rloop)
    /\ rpc' = "done"
    /\ UNCHANGED <<rargs, robj, rimg, rloop>>
    /\ UNCHANGED notRRC

RRCNext == RRCConstruct \/ RRCGate \/ RRCAttempt \/ RRCCropResize

(***************************************************************************)
(* Affine.  A matrix [[a, b, tx], [c, d, ty]] is <<a, b, tx, c, d, ty>>;   *)
(* the model takes the quarter-turn rotations with whole-pixel             *)
(* translations, on which cv.warpAffine is exact.                          *)
(***************************************************************************)
INTER_LINEAR == 1
WARP_INVERSE_MAP == 16

\* a ^ b on non-negative integers
RECURSIVE BitXor(_, _)
BitXor(a, b) ==
    IF a = 0 /\ b = 0 THEN 0
    ELSE (((a % 2) + (b % 2)) % 2) + 2 * BitXor(a \div 2, b \div 2)

\* a | b on non-negative integers
RECURSIVE BitOr(_, _)
BitOr(a, b) ==
    IF a = 0 /\ b = 0 THEN 0
    ELSE (IF a % 2 = 1 \/ b % 2 = 1 THEN 1 ELSE 0) + 2 * BitOr(a \div 2, b \div 2)

\* whether bit (a power of two) is set in flags
HasFlag(flags, bit) == (flags \div bit) % 2 = 1

\* M applied to the point (x, y)
MapPoint(M, x, y) == <<M[1] * x + M[2] * y + M[3], M[4] * x + M[5] * y + M[6]>>

\* cv.invertAffineTransform, as cv.warpAffine does it without WARP_INVERSE_MAP
\* (the determinant of the matrices modelled is 1 or -1)
InvertAffineTransform(M) ==
    LET D == M[1] * M[5] - M[2] * M[4]
        A11 == M[5] * D
        A22 == M[1] * D
        A12 == -M[2] * D
        A21 == -M[4] * D
    IN <<A11, A12, -A11 * M[3] - A12 * M[6], A21, A22, -A21 * M[3] - A22 * M[6]>>

\* cv.warpAffine(src, M, dsize, flags, borderMode, borderValue), dsize = <<w, h>>
WarpAffine(src, M, dsize, flags, borderMode, borderValue) ==
    LET Mi == IF HasFlag(flags, WARP_INVERSE_MAP) THEN M ELSE InvertAffineTransform(M)
    IN MkImage(src.ndim, dsize[2], dsize[1],
               [p \in Pixels(dsize[2], dsize[1]) |->
                   LET q == MapPoint(Mi, p[2] - 1, p[1] - 1)
                   IN BorderPixel(src, q[2] + 1, q[1] + 1, borderMode, borderValue)])

\* Affine.__init__(transf, out_size, flags, border_mode, border_val)
AffineInit(transf, out_size, flags, border_mode, border_val) ==
    IF Len(transf) # 6
    THEN Fail("transformation matrix must be 6 elements (2x3)")
    ELSE IF out_size.k # "none" /\ ~IsSeq(out_size)
    THEN Fail("unexpected output size type")
    ELSE IF out_size.k # "none" /\ Len(out_size.items) # 2
    THEN Fail("output image size should be 2-elem list or tuple")
    ELSE [ok |-> TRUE, err |-> "none", transf |-> transf,
          out_size |-> IF out_size.k = "none" THEN PyNone ELSE PyTuple(out_size.items),
          flags |-> IF flags.k = "none" THEN INTER_LINEAR ELSE flags.n,
          border_mode |-> IF border_mode = "None" THEN "BORDER_CONSTANT" ELSE border_mode,
          border_val |-> IF border_val.k = "none" THEN 0 ELSE border_val.n]

\* what a cv.warpAffine call was given, and what it returned
Warped(sample, M, dsize, flags, borderMode, borderValue) ==
    [status |-> "returned",
     ret |-> {WarpAffine(sample, M, dsize, flags, borderMode, borderValue)},
     err |-> "none",
     warp |-> [M |-> M, dsize |-> dsize, flags |-> flags, borderMode |-> borderMode,
               borderValue |-> borderValue]]

NoWarp == [M |-> <<>>, dsize |-> <<>>, flags |-> 0, borderMode |-> "None", borderValue |-> 0]

\* Affine.__call__(sample)
AffineApply(op, sample) ==
    LET out_size == IF op.out_size.k = "none" THEN <<sample.w, sample.h>>
                    ELSE <<op.out_size.items[1].n, op.out_size.items[2].n>>
    IN Warped(sample, op.transf, out_size, op.flags, op.border_mode, op.border_val)

\* Affine.invert that sets the inverse-map bit instead of toggling it
AffineInvertApplyOr(op, sample) ==
    IF op.out_size.k = "none"
    THEN Warped(sample, op.transf, <<sample.w, sample.h>>,
                BitOr(op.flags, WARP_INVERSE_MAP), op.border_mode, op.border_val)
    ELSE [status |-> "raised", ret |-> {},
          err |-> "unknown original image size, cannot invert affine transform",
          warp |-> NoWarp]

\* Affine.invert that warps the same way as __call__
AffineInvertApplySameMap(op, sample) ==
    IF op.out_size.k = "none"
    THEN Warped(sample, op.transf, <<sample.w, sample.h>>,
                op.flags, op.border_mode, op.border_val)
    ELSE [status |-> "raised", ret |-> {},
          err |-> "unknown original image size, cannot invert affine transform",
          warp |-> NoWarp]

\* Affine.invert(sample)
AffineInvertApply(op, sample) ==
    IF op.out_size.k = "none"
    THEN Warped(sample, op.transf, <<sample.w, sample.h>>,
                BitXor(op.flags, WARP_INVERSE_MAP), op.border_mode, op.border_val)
    ELSE [status |-> "raised", ret |-> {},
          err |-> "unknown original image size, cannot invert affine transform",
          warp |-> NoWarp]

(***************************************************************************)
(* The Affine specification: an instance, an image, then __call__, invert, *)
(* or invert of what __call__ returned.                                    *)
(***************************************************************************)
\* the rotations by 0, 90, 180 and 270 degrees
Rotations == {<<1, 0, 0, 1>>, <<0, -1, 1, 0>>, <<-1, 0, 0, -1>>, <<0, 1, -1, 0>>}

RigidMatrices ==
    {<<r[1], r[2], tx, r[3], r[4], ty>> :
        r \in Rotations, tx \in (-MaxShift)..MaxShift, ty \in (-MaxShift)..MaxShift}

OutSizeArgs == {PyNone, PyTuple(<<PyInt(2), PyInt(1)>>), PyList(<<PyInt(3), PyInt(3)>>)}

FlagsArgs == {PyNone, PyInt(0), PyInt(WARP_INVERSE_MAP), PyInt(WARP_INVERSE_MAP + 1)}

BorderModeArgs == {"None", "BORDER_REPLICATE"}

NoWarpResult == [status |-> "none", ret |-> {}, err |-> "none", warp |-> NoWarp]

AffineStart ==
    /\ aobj \in {AffineInit(M, o, f, b, PyNone) :
                    M \in RigidMatrices, o \in OutSizeArgs, f \in FlagsArgs,
                    b \in BorderModeArgs}
    /\ aimg \in {TestImage(2, h, w) : h \in 1..MaxDim, w \in 1..MaxDim}
    /\ apc = "ready"
    /\ afwd = NoWarpResult
    /\ ares = NoWarpResult

AffineIdle ==
    /\ aobj = NoneVal
    /\ aimg = NoneVal
    /\ apc = "idle"
    /\ afwd = NoWarpResult
    /\ ares = NoWarpResult

\* Affine.__call__(sample)
AffineCall ==
    /\ apc = "ready"
    /\ afwd' = AffineApply(aobj, aimg)
    /\ apc' = "called"
    /\ UNCHANGED <<aobj, aimg, ares>>
    /\ UNCHANGED notAffine

\* Affine.invert(sample), on a sample that did not come from __call__
AffineInvert ==
    /\ apc = "ready"
    /\ ares' = AffineInvertApply(aobj, aimg)
    /\ apc' = "inverted"
    /\ UNCHANGED <<aobj, aimg, afwd>>
    /\ UNCHANGED notAffine

\* Affine.invert(Affine.__call__(sample))
AffineInvertBack ==
    /\ apc = "called"
    /\ \E y \in afwd.ret : ares' = AffineInvertApply(aobj, y)
    /\ apc' = "roundtrip"
    /\ UNCHANGED <<aobj, aimg, afwd>>
    /\ UNCHANGED notAffine

AffineNext == AffineCall \/ AffineInvert \/ AffineInvertBack

(***************************************************************************)
(* Transpose.  An array is its shape, a sequence of extents, and its data, *)
(* indexed by sequences of 1-based positions; axes are 0-based as in the   *)
(* source.                                                                 *)
(***************************************************************************)
Indices(shape) ==
    {idx \in [1..Len(shape) -> 1..MaxExtent] : \A i \in 1..Len(shape) : idx[i] <= shape[i]}

\* the element of the test array at idx: all elements differ
RECURSIVE OwnElement(_)
OwnElement(idx) == IF idx = <<>> THEN 0 ELSE Head(idx) + 10 * OwnElement(Tail(idx))

TestArray(shape) == [shape |-> shape, data |-> [idx \in Indices(shape) |-> OwnElement(idx)]]

\* lines 970-971: for i in range(len(axes)): self.axes_inv[self.axes[i]] = i
RECURSIVE TransposeFillInv(_, _, _)
TransposeFillInv(axes, i, axes_inv) ==
    IF i > Len(axes) THEN axes_inv
    ELSE TransposeFillInv(axes, i + 1, [axes_inv EXCEPT ![axes[i] + 1] = PyInt(i - 1)])

\* a Transpose whose axes_inv is a copy of axes
TransposeInitCopy(axes) ==
    IF \E i \in 1..Len(axes) : axes[i] >= Len(axes) THEN Fail("oob dim in axes")
    ELSE [ok |-> TRUE, err |-> "none", axes |-> axes,
          axes_inv |-> [i \in 1..Len(axes) |-> PyInt(axes[i])]]

\* Transpose.__init__(axes), axes a list of non-negative ints
TransposeInit(axes) ==
    IF \E i \in 1..Len(axes) : axes[i] >= Len(axes) THEN Fail("oob dim in axes")
    ELSE [ok |-> TRUE, err |-> "none", axes |-> axes,
          axes_inv |-> TransposeFillInv(axes, 1, [i \in 1..Len(axes) |-> PyNone])]

\* np.transpose(a, axes): axis i of the result is axis axes[i] of a
NpTranspose(a, axes) ==
    LET n == Len(a.shape)
    IN IF Len(axes) # n \/ \E i \in 1..Len(axes) : ~IsInt(axes[i]) \/ axes[i].n \notin 0..(n - 1)
       THEN [status |-> "raised", ret |-> {}, err |-> "axes don't match array"]
       ELSE IF \E i, j \in 1..n : i # j /\ axes[i].n = axes[j].n
       THEN [status |-> "raised", ret |-> {}, err |-> "repeated axis in transpose"]
       ELSE LET shape == [i \in 1..n |-> a.shape[axes[i].n + 1]]
                from(idx) == [j \in 1..n |-> idx[CHOOSE i \in 1..n : axes[i].n + 1 = j]]
            IN [status |-> "returned",
                ret |-> {[shape |-> shape,
                          data |-> [idx \in Indices(shape) |-> a.data[from(idx)]]]},
                err |-> "none"]

\* Transpose.__call__(sample)
TransposeApply(op, sample) == NpTranspose(sample, [i \in 1..Len(op.axes) |-> PyInt(op.axes[i])])

\* Transpose.invert(sample)
TransposeInvertApply(op, sample) == NpTranspose(sample, op.axes_inv)

AxesArgs(n) == [1..n -> 0..n]

TransposeStart ==
    /\ \E n \in 1..MaxAxes :
          /\ \E axes \in AxesArgs(n) : tobj = TransposeInit(axes)
          /\ \E shape \in [1..n -> 1..MaxExtent] : tarr = TestArray(shape)
    /\ tpc = "ready"
    /\ tres = [first |-> NoImageResult, second |-> NoImageResult]

\* t.invert(t(x))
TransposeRoundTrip ==
    /\ tpc = "ready" /\ tobj.ok
    /\ LET y == TransposeApply(tobj, tarr)
       IN tres' = [first |-> y,
                   second |-> IF y.status = "returned"
                              THEN TransposeInvertApply(tobj, CHOOSE a \in y.ret : TRUE)
                              ELSE NoImageResult]
    /\ tpc' = "roundtrip"
    /\ UNCHANGED <<tobj, tarr>>
    /\ UNCHANGED <<firstVars, notTranspose>>

\* t(t.invert(x))
TransposeBackTrip ==
    /\ tpc = "ready" /\ tobj.ok
    /\ LET y == TransposeInvertApply(tobj, tarr)
       IN tres' = [first |-> y,
                   second |-> IF y.status = "returned"
                              THEN TransposeApply(tobj, CHOOSE a \in y.ret : TRUE)
                              ELSE NoImageResult]
    /\ tpc' = "backtrip"
    /\ UNCHANGED <<tobj, tarr>>
    /\ UNCHANGED <<firstVars, notTranspose>>

TransposeNext == TransposeRoundTrip \/ TransposeBackTrip

(***************************************************************************)
(* Duplicator.  A sample is an image, None, or a list of those.            *)
(***************************************************************************)
DupImage(id) == [k |-> "image", id |-> id]

\* Duplicator.__init__(count, deepcopy)
DuplicatorInit(count, deepcopy) ==
    IF count <= 0 THEN Fail("invalid copy count")
    ELSE [ok |-> TRUE, err |-> "none", count |-> count, deepcopy |-> deepcopy]

\* Duplicator.__call__(sample): count copies of the sample, deep or shallow
DuplicatorApply(op, sample) ==
    [status |-> "returned", ret |-> {PyList([idx \in 1..op.count |-> sample])}, err |-> "none"]

\* a Duplicator.invert that takes the head of any non-empty list
DuplicatorInvertApplyAnyLength(op, sample) ==
    IF sample.k # "list" \/ Len(sample.items) = 0
    THEN [status |-> "raised", ret |-> {}, err |-> "invalid sample type (should be list)"]
    ELSE [status |-> "returned", ret |-> {sample.items[1]}, err |-> "none"]

\* Duplicator.invert(sample)
DuplicatorInvertApply(op, sample) ==
    IF sample.k # "list"
    THEN [status |-> "raised", ret |-> {}, err |-> "invalid sample type (should be list)"]
    ELSE IF Len(sample.items) # op.count
    THEN [status |-> "raised", ret |-> {}, err |-> "invalid sample list length"]
    ELSE [status |-> "returned", ret |-> {sample.items[1]}, err |-> "none"]

DupAtoms == {DupImage(1), DupImage(2), PyNone}

DupSamples == DupAtoms \cup {PyList(items) : items \in UNION {[1..n -> DupAtoms] : n \in 0..(MaxCount + 1)}}

DuplicatorStart ==
    /\ \E count \in (-1)..MaxCount, deepcopy \in BOOLEAN :
          dobj = [count |-> count, deepcopy |-> deepcopy, self |-> DuplicatorInit(count, deepcopy)]
    /\ dsample \in DupSamples
    /\ dpc = "ready"
    /\ dres = [call |-> NoImageResult, inv |-> NoImageResult]

DuplicatorCall ==
    /\ dpc = "ready" /\ dobj.self.ok
    /\ dres' = [dres EXCEPT !.call = DuplicatorApply(dobj.self, dsample)]
    /\ dpc' = "called"
    /\ UNCHANGED <<dobj, dsample>>
    /\ UNCHANGED <<firstVars, notDuplicator>>

\* invert on the output of __call__
DuplicatorInvertBack ==
    /\ dpc = "called"
    /\ \E y \in dres.call.ret : dres' = [dres EXCEPT !.inv = DuplicatorInvertApply(dobj.self, y)]
    /\ dpc' = "roundtrip"
    /\ UNCHANGED <<dobj, dsample>>
    /\ UNCHANGED <<firstVars, notDuplicator>>

\* invert on any sample
DuplicatorInvert ==
    /\ dpc = "ready" /\ dobj.self.ok
    /\ dres' = [dres EXCEPT !.inv = DuplicatorInvertApply(dobj.self, dsample)]
    /\ dpc' = "inverted"
    /\ UNCHANGED <<dobj, dsample>>
    /\ UNCHANGED <<firstVars, notDuplicator>>

DuplicatorNext == DuplicatorCall \/ DuplicatorInvertBack \/ DuplicatorInvert

(***************************************************************************)
(* Tile.  An image or mask handed to a Tile is a numpy array or a PIL      *)
(* image (kind) holding the pixels img; a missing mask has kind "none".    *)
(***************************************************************************)
NoMask == [kind |-> "none"]
AsArray(img) == [kind |-> "ndarray", img |-> img]
AsPIL(img) == [kind |-> "PIL", img |-> img]

\* Tile.__init__(tile_size, tile_overlap, min_mask_iou, offset_overlap, bordertype, borderval)
TileInit(tile_size, tile_overlap, min_mask_iou, offset_overlap, bordertype, borderval) ==
    LET size_ok == IF IsSeq(tile_size)
                   THEN /\ Len(tile_size.items) = 2
                        /\ (AllOfKind(tile_size.items, "int") \/ AllOfKind(tile_size.items, "float"))
                   ELSE IsNum(tile_size)
        size == IF IsSeq(tile_size) THEN tile_size.items ELSE <<tile_size, tile_size>>
    IN IF IsSeq(tile_size) /\ Len(tile_size.items) # 2
       THEN Fail("expected tile size to be two-element list or tuple, or single scalar")
       ELSE IF IsSeq(tile_size) /\ ~size_ok
       THEN Fail("expected tile size pair elements to be the same type (int or float)")
       ELSE IF ~size_ok
       THEN Fail("unexpected tile size type (need tuple/list/int/float)")
       ELSE IF ~IsFloat(tile_overlap) \/ tile_overlap.n < 0 \/ tile_overlap.n >= tile_overlap.d
       THEN Fail("invalid tile overlap (should be float in [0,1[)")
       ELSE IF ~IsFloat(min_mask_iou) \/ min_mask_iou.n < 0 \/ tile_overlap.n > tile_overlap.d
       THEN Fail("invalid minimum mask IoU score (should be float in [0,1])")
       ELSE [ok |-> TRUE, err |-> "none", tile_size |-> size, tile_overlap |-> tile_overlap,
             min_mask_iou |-> min_mask_iou, offset_overlap |-> offset_overlap,
             bordertype |-> bordertype, borderval |-> borderval]

\* Tile._get_tile_rects with the step taken as tile_size - overlap
TileGeometryStepMinusOverlap(op, height, width) ==
    LET ts == IF IsFloat(op.tile_size[1])
              THEN <<RoundHalfEven(op.tile_size[1].n * width, op.tile_size[1].d),
                     RoundHalfEven(op.tile_size[2].n * height, op.tile_size[2].d)>>
              ELSE <<op.tile_size[1].n, op.tile_size[2].n>>
        overlap == <<RoundHalfEven(ts[1] * op.tile_overlap.n, op.tile_overlap.d),
                     RoundHalfEven(ts[2] * op.tile_overlap.n, op.tile_overlap.d)>>
    IN [height |-> height, width |-> width, tile_size |-> ts, overlap |-> overlap,
        overlap_offset |-> IF op.offset_overlap
                           THEN <<(-overlap[1]) \div 2, (-overlap[2]) \div 2>>
                           ELSE <<0, 0>>,
        step_size |-> <<Max(ts[1] - overlap[1], 1), Max(ts[2] - overlap[2], 1)>>,
        iou |-> op.min_mask_iou]

\* lines 1152-1159: tile_size, overlap, overlap_offset, step_size as <<x, y>> pairs
TileGeometry(op, height, width) ==
    LET ts == IF IsFloat(op.tile_size[1])
              THEN <<RoundHalfEven(op.tile_size[1].n * width, op.tile_size[1].d),
                     RoundHalfEven(op.tile_size[2].n * height, op.tile_size[2].d)>>
              ELSE <<op.tile_size[1].n, op.tile_size[2].n>>
        overlap == <<RoundHalfEven(ts[1] * op.tile_overlap.n, op.tile_overlap.d),
                     RoundHalfEven(ts[2] * op.tile_overlap.n, op.tile_overlap.d)>>
    IN [height |-> height, width |-> width, tile_size |-> ts, overlap |-> overlap,
        overlap_offset |-> IF op.offset_overlap
                           THEN <<(-overlap[1]) \div 2, (-overlap[2]) \div 2>>
                           ELSE <<0, 0>>,
        step_size |-> <<Max(ts[1] - (overlap[1] \div 2) * 2, 1),
                        Max(ts[2] - (overlap[2] \div 2) * 2, 1)>>,
        iou |-> op.min_mask_iou]

\* np.count_nonzero(crop)
CountNonZero(img) == Cardinality({p \in Pixels(img.h, img.w) : img.px[p] # 0})

\* lines 1170-1171, 1184-1185: the crop of the mask at (col, row) covers req_mask_area
TileMaskAccepts(g, mask, col, row) ==
    LET crop == SafeCrop(mask, <<col, row>>,
                         <<col + g.tile_size[1], row + g.tile_size[2]>>, "BORDER_CONSTANT", 0)
    IN CountNonZero(crop) * g.iou.d >= g.tile_size[1] * g.tile_size[2] * g.iou.n

\* the search taking the accepted placement itself as the anchor
TileOffsetCoordFound(g, mask) ==
    LET oo == g.overlap_offset
        row_range == oo[2]..(g.height - oo[2] - g.tile_size[2])
        col_range == oo[1]..(g.width - oo[1] - g.tile_size[1])
        hits == {rc \in row_range \X col_range : TileMaskAccepts(g, mask, rc[2], rc[1])}
        first == CHOOSE f \in hits :
                     \A h \in hits : f[1] < h[1] \/ (f[1] = h[1] /\ f[2] <= h[2])
    IN IF hits = {} THEN {} ELSE {<<first[2], first[1]>>}

\* the search reducing the accepted placement modulo the step from 0
TileOffsetCoordFromZero(g, mask) ==
    LET oo == g.overlap_offset
        row_range == oo[2]..(g.height - oo[2] - g.tile_size[2])
        col_range == oo[1]..(g.width - oo[1] - g.tile_size[1])
        hits == {rc \in row_range \X col_range : TileMaskAccepts(g, mask, rc[2], rc[1])}
        first == CHOOSE f \in hits :
                     \A h \in hits : f[1] < h[1] \/ (f[1] = h[1] /\ f[2] <= h[2])
    IN IF hits = {} THEN {}
       ELSE {<<first[2] % g.step_size[1], first[1] % g.step_size[2]>>}

\* lines 1166-1174: the anchor found by the row-major search, as a set (empty: None)
TileOffsetCoord(g, mask) ==
    LET oo == g.overlap_offset
        row_range == oo[2]..(g.height - oo[2] - g.tile_size[2])
        col_range == oo[1]..(g.width - oo[1] - g.tile_size[1])
        hits == {rc \in row_range \X col_range : TileMaskAccepts(g, mask, rc[2], rc[1])}
        first == CHOOSE f \in hits :
                     \A h \in hits : f[1] < h[1] \/ (f[1] = h[1] /\ f[2] <= h[2])
    IN IF hits = {} THEN {}
       ELSE {<<oo[1] + ((first[2] - oo[1]) % g.step_size[1]),
               oo[2] + ((first[1] - oo[2]) % g.step_size[2])>>}

\* the inner while loop stopping one column early (< for <=)
RECURSIVE TileColLoopStrict(_, _, _, _, _)
TileColLoopStrict(g, mask, row, col, tile_rects) ==
    IF col + g.tile_size[1] < g.width - g.overlap_offset[1]
    THEN TileColLoopStrict(g, mask, row, col + g.step_size[1],
                           IF mask.kind = "none" \/ TileMaskAccepts(g, mask.img, col, row)
                           THEN Append(tile_rects, <<col, row, g.tile_size[1], g.tile_size[2]>>)
                           ELSE tile_rects)
    ELSE tile_rects

\* lines 1182-1189: the inner while loop, over the columns of one row
RECURSIVE TileColLoop(_, _, _, _, _)
TileColLoop(g, mask, row, col, tile_rects) ==
    IF col + g.tile_size[1] <= g.width - g.overlap_offset[1]
    THEN TileColLoop(g, mask, row, col + g.step_size[1],
                     IF mask.kind = "none" \/ TileMaskAccepts(g, mask.img, col, row)
                     THEN Append(tile_rects, <<col, row, g.tile_size[1], g.tile_size[2]>>)
                     ELSE tile_rects)
    ELSE tile_rects

\* the outer while loop bounded by the top-left corner alone
RECURSIVE TileRowLoopAnyHeight(_, _, _, _, _)
TileRowLoopAnyHeight(g, mask, offset_coord, row, tile_rects) ==
    IF row <= g.height - g.overlap_offset[2]
    THEN TileRowLoopAnyHeight(g, mask, offset_coord, row + g.step_size[2],
                              TileColLoop(g, mask, row, offset_coord[1], tile_rects))
    ELSE tile_rects

\* lines 1180-1190: the outer while loop, over the rows
RECURSIVE TileRowLoop(_, _, _, _, _)
TileRowLoop(g, mask, offset_coord, row, tile_rects) ==
    IF row + g.tile_size[2] <= g.height - g.overlap_offset[2]
    THEN TileRowLoop(g, mask, offset_coord, row + g.step_size[2],
                     TileColLoop(g, mask, row, offset_coord[1], tile_rects))
    ELSE tile_rects

\* Tile._get_tile_rects(image, mask): rects are <<x, y, w, h>>
GetTileRects(op, image, mask) ==
    LET g == TileGeometry(op, image.img.h, image.img.w)
    IN IF mask.kind = "none"
       THEN [status |-> "returned", err |-> "none",
             ret |-> {TileRowLoop(g, mask, g.overlap_offset, g.overlap_offset[2], <<>>)}]
       ELSE IF image.img.h # mask.img.h \/ image.img.w # mask.img.w
       THEN [status |-> "raised", err |-> "image and mask dimensions mismatch", ret |-> {}]
       ELSE IF mask.img.ndim # 2
       THEN [status |-> "raised", err |-> "mask should be 2d binary (uchar) array", ret |-> {}]
       ELSE LET found == TileOffsetCoord(g, mask.img)
            IN [status |-> "returned", err |-> "none",
                ret |-> IF found = {} THEN {<<>>}
                        ELSE {TileRowLoop(g, mask, CHOOSE c \in found : TRUE,
                                          (CHOOSE c \in found : TRUE)[2], <<>>)}]

\* Tile.count_tiles(image, mask)
TileCountTiles(op, image, mask) ==
    LET rects == GetTileRects(op, image, mask)
    IN [status |-> rects.status, err |-> rects.err, ret |-> {Len(r) : r \in rects.ret}]

\* Tile.__call__(image, mask): safe_crop takes numpy arrays only (utils.py, lines 632-633)
TileApply(op, image, mask) ==
    LET rects == GetTileRects(op, image, mask)
    IN IF rects.status = "raised" THEN rects
       ELSE IF image.kind # "ndarray" /\ rects.ret # {<<>>}
       THEN [status |-> "raised", err |-> "expected input image to be numpy array", ret |-> {}]
       ELSE [status |-> "returned", err |-> "none",
             ret |-> {[i \in 1..Len(r) |->
                          SafeCrop(image.img, <<r[i][1], r[i][2]>>,
                                   <<r[i][1] + r[i][3], r[i][2] + r[i][4]>>,
                                   op.bordertype, op.borderval)] : r \in rects.ret}]

\* Tile.invert(image, mask)
TileInvertApply(op, image, mask) ==
    IF mask.kind # "none"
    THEN [status |-> "raised", ret |-> {},
          err |-> "cannot invert operation, mask might have forced the loss of image content"]
    ELSE [status |-> "raised", ret |-> {}, err |-> "NotImplementedError"]

\* a 2-d mask of h x w pixels, 1 inside rows r0..r1 and columns c0..c1, 0 elsewhere
RectMask(h, w, r0, r1, c0, c1) ==
    MkImage(2, h, w, [p \in Pixels(h, w) |->
                         IF p[1] \in r0..r1 /\ p[2] \in c0..c1 THEN 1 ELSE 0])

\* a 2-d mask of h x w pixels, 1 at the top-right and bottom-left corners
CornersMask(h, w) ==
    MkImage(2, h, w, [p \in Pixels(h, w) |->
                         IF p \in {<<1, w>>, <<h, 1>>} THEN 1 ELSE 0])

\* the masks tried with an image of h x w pixels: none, rectangles of ones, two
\* corners, a PIL
\* mask, a mask of another size and a mask with channels
TileMasks(h, w) ==
    {NoMask}
    \cup {AsArray(RectMask(h, w, r0, r1, c0, c1)) :
              r0 \in 1..h, r1 \in 0..h, c0 \in 1..w, c1 \in 1..w}
    \cup {AsArray(CornersMask(h, w)),
          AsPIL(RectMask(h, w, 1, h, 1, w)),
          AsArray(RectMask(h + 1, w, 1, h, 1, w)),
          AsArray(MkImage(3, h, w, [p \in Pixels(h, w) |-> 1]))}

\* __init__ looks at the type of tile_size only, so 0 is among the sizes it takes
TileSizeArgs ==
    {PyInt(0), PyInt(1), PyInt(2), PyTuple(<<PyInt(2), PyInt(1)>>), PyFloat(1, 2),
     PyTuple(<<PyInt(1), PyFloat(1, 2)>>)}

TileOverlapArgs == {PyFloat(0, 1), PyFloat(1, 2), PyFloat(3, 4), PyInt(0)}

TileIouArgs == {PyFloat(1, 2), PyFloat(1, 1), PyFloat(3, 2)}

NoTileResult == [count |-> NoImageResult, call |-> NoImageResult, inv |-> NoImageResult]

TileStart ==
    /\ \E tile_size \in TileSizeArgs, tile_overlap \in TileOverlapArgs,
          min_mask_iou \in TileIouArgs, offset_overlap \in BOOLEAN :
          tileobj = TileInit(tile_size, tile_overlap, min_mask_iou, offset_overlap,
                             "BORDER_CONSTANT", BorderVal)
    /\ \E h \in 1..MaxDim, w \in 1..MaxDim :
          /\ tileimg \in {AsArray(TestImage(3, h, w)), AsPIL(TestImage(3, h, w))}
          /\ tilemask \in TileMasks(h, w)
    /\ tilepc = "ready"
    /\ tileres = NoTileResult

TileCount ==
    /\ tilepc = "ready" /\ tileobj.ok
    /\ tileres' = [tileres EXCEPT !.count = TileCountTiles(tileobj, tileimg, tilemask)]
    /\ tilepc' = "counted"
    /\ UNCHANGED <<tileobj, tileimg, tilemask>>
    /\ UNCHANGED <<firstVars, notTile>>

\* __call__ on the inputs count_tiles was given
TileCall ==
    /\ tilepc = "counted"
    /\ tileres' = [tileres EXCEPT !.call = TileApply(tileobj, tileimg, tilemask)]
    /\ tilepc' = "tiled"
    /\ UNCHANGED <<tileobj, tileimg, tilemask>>
    /\ UNCHANGED <<firstVars, notTile>>

\* invert on the tiles __call__ returned, with the mask it was given
TileInvert ==
    /\ tilepc = "tiled"
    /\ \E tiles \in tileres.call.ret :
          tileres' = [tileres EXCEPT !.inv = TileInvertApply(tileobj, tiles, tilemask)]
    /\ tilepc' = "inverted"
    /\ UNCHANGED <<tileobj, tileimg, tilemask>>
    /\ UNCHANGED <<firstVars, notTile>>

TileNext == TileCount \/ TileCall \/ TileInvert

(***************************************************************************)
(* NormalizeZeroMeanUnitVar and NormalizeMinMax.  Values are rationals     *)
(* n/d in lowest terms; a floating out_type rounds every result to         *)
(* MantissaBits significant bits, an integer out_type truncates.           *)
(***************************************************************************)
Abs(x) == IF x < 0 THEN -x ELSE x

RECURSIVE GCD(_, _)
GCD(a, b) == IF b = 0 THEN a ELSE GCD(b, a % b)

Rat(n, d) ==
    LET g == GCD(Abs(n), Abs(d))
        s == IF d < 0 THEN -1 ELSE 1
    IN [n |-> s * (n \div g), d |-> s * (d \div g)]

RatAdd(a, b) == Rat(a.n * b.d + b.n * a.d, a.d * b.d)
RatSub(a, b) == Rat(a.n * b.d - b.n * a.d, a.d * b.d)
RatMul(a, b) == Rat(a.n * b.n, a.d * b.d)
RatDiv(a, b) == Rat(a.n * b.d, a.d * b.n)
RatAbs(a) == [n |-> Abs(a.n), d |-> a.d]
RatLeq(a, b) == a.n * b.d <= b.n * a.d

RECURSIVE Pow2(_)
Pow2(k) == IF k = 0 THEN 1 ELSE 2 * Pow2(k - 1)

\* the nearest value with MantissaBits significant bits, halves to even
FloatRound(q) ==
    IF q.n = 0 THEN q
    ELSE LET n == Abs(q.n)
             up(e) == IF e < 0 THEN Pow2(-e) ELSE 1
             down(e) == IF e < 0 THEN 1 ELSE Pow2(e)
             e == CHOOSE x \in (-12)..12 :
                      /\ Pow2(MantissaBits - 1) * q.d * down(x) <= n * up(x)
                      /\ n * up(x) < Pow2(MantissaBits) * q.d * down(x)
             m == RoundHalfEven(n * up(e), q.d * down(e))
         IN Rat((IF q.n < 0 THEN -m ELSE m) * down(e), up(e))

\* int(q): towards zero
TruncToInt(q) == Rat(IF q.n >= 0 THEN q.n \div q.d ELSE -((-q.n) \div q.d), 1)

\* array.astype(out_type)
AsType(out_type, q) == IF out_type = "float" THEN FloatRound(q) ELSE TruncToInt(q)

\* the result of one arithmetic operation on arrays of the floating out_type is
\* rounded; integer subtraction, multiplication and addition are exact, and a
\* true division of integers is rounded only by the cast that follows it
Arith(out_type, q) == IF out_type = "float" THEN FloatRound(q) ELSE q

\* np.asarray(param).astype(out_type): a sequence of values, <<>> standing for a 0-d array
AsArrayOfType(param, out_type) ==
    IF IsSeq(param)
    THEN [ndim |-> 1, items |-> [i \in 1..Len(param.items) |->
                                    AsType(out_type, Rat(param.items[i].n, param.items[i].d))]]
    ELSE [ndim |-> 0, items |-> <<AsType(out_type, Rat(param.n, param.d))>>]

\* NormalizeZeroMeanUnitVar.__init__(mean, std, out_type)
NormalizeZeroMeanUnitVarInit(mean, std, out_type) ==
    LET m == AsArrayOfType(mean, out_type)
        s == AsArrayOfType(std, out_type)
    IN IF m.ndim # 1 \/ s.ndim # 1 THEN Fail("normalization params should be 1-d")
       ELSE IF Len(m.items) # Len(s.items) THEN Fail("normalization params size mismatch")
       ELSE IF \E i \in 1..Len(s.items) : s.items[i].n = 0
       THEN Fail("normalization std must be non-null")
       ELSE [ok |-> TRUE, err |-> "none", kind |-> "NormalizeZeroMeanUnitVar",
             out_type |-> out_type, a |-> m.items, b |-> s.items]

\* NormalizeMinMax.__init__(min, max, out_type)
NormalizeMinMaxInit(min, max, out_type) ==
    LET lo == AsArrayOfType(min, out_type).items
        hi == AsArrayOfType(max, out_type).items
    IN IF Len(lo) # Len(hi) THEN Fail("normalization params size mismatch")
       ELSE LET diff == [i \in 1..Len(lo) |-> Arith(out_type, RatSub(hi[i], lo[i]))]
            IN IF \E i \in 1..Len(diff) : diff[i].n = 0
               THEN Fail("normalization diff must be non-null")
               ELSE [ok |-> TRUE, err |-> "none", kind |-> "NormalizeMinMax",
                     out_type |-> out_type, a |-> lo, b |-> diff]

\* the parameter a channel is paired with: a one-element array is broadcast
Channel(params, i) == IF Len(params) = 1 THEN params[1] ELSE params[i]

\* __call__(sample) of both: ((sample - a) / b).astype(out_type)
NormalizeApply(op, sample) ==
    [i \in 1..Len(sample) |->
        AsType(op.out_type,
               RatDiv(Arith(op.out_type, RatSub(sample[i], Channel(op.a, i))),
                      Channel(op.b, i)))]

\* an invert that adds before it multiplies
NormalizeInvertApplyAddFirst(op, sample) ==
    [i \in 1..Len(sample) |->
        AsType(op.out_type,
               RatMul(Arith(op.out_type, RatAdd(sample[i], Channel(op.a, i))),
                      Channel(op.b, i)))]

\* invert(sample) of both: (sample * b + a).astype(out_type)
NormalizeInvertApply(op, sample) ==
    [i \in 1..Len(sample) |->
        AsType(op.out_type,
               RatAdd(Arith(op.out_type, RatMul(sample[i], Channel(op.b, i))),
                      Channel(op.a, i)))]

NormParams(values) ==
    values \cup {PyList(items) : items \in [1..1 -> values] \cup [1..2 -> values]}

NormOffsetArgs == NormParams({PyInt(0), PyInt(1), PyFloat(1, 2)})

NormScaleArgs == NormParams({PyInt(0), PyFloat(1, 2), PyInt(2), PyInt(3)})

NormMaxArgs == NormParams({PyInt(1), PyInt(2), PyInt(3), PyFloat(7, 2)})

OutTypes == {"float", "int"}

NormalizeStart ==
    /\ \/ \E mean \in NormOffsetArgs, std \in NormScaleArgs, out_type \in OutTypes :
             nobj = NormalizeZeroMeanUnitVarInit(mean, std, out_type)
       \/ \E min \in NormOffsetArgs, max \in NormMaxArgs, out_type \in OutTypes :
             nobj = NormalizeMinMaxInit(min, max, out_type)
    /\ \E c \in 1..2 :
          /\ nobj.ok => Len(nobj.a) \in {1, c}
          /\ nsample \in [1..c -> {Rat(x, 1) : x \in 0..MaxValue}]
    /\ npc = "ready"
    /\ nres = [call |-> <<>>, inv |-> <<>>]

NormalizeCall ==
    /\ npc = "ready" /\ nobj.ok
    /\ nres' = [nres EXCEPT !.call = NormalizeApply(nobj, nsample)]
    /\ npc' = "called"
    /\ UNCHANGED <<nobj, nsample>>
    /\ UNCHANGED <<firstVars, notNormalize>>

\* invert on the output of __call__
NormalizeInvertBack ==
    /\ npc = "called"
    /\ nres' = [nres EXCEPT !.inv = NormalizeInvertApply(nobj, nres.call)]
    /\ npc' = "roundtrip"
    /\ UNCHANGED <<nobj, nsample>>
    /\ UNCHANGED <<firstVars, notNormalize>>

NormalizeNext == NormalizeCall \/ NormalizeInvertBack

(***************************************************************************)
(* ImageTransformWrapper and AugmentorWrapper.  A sample is None, an image *)
(* (a numpy array, a PIL image or a tensor) or a list of images; applied   *)
(* counts the one-to-one operations an image went through.  A draw is      *)
(* round(np.random.uniform(0, 1), 1), in tenths.                           *)
(***************************************************************************)
WrapImage(kind, id) == [k |-> kind, id |-> id, applied |-> 0]

\* operation(image): one image in, one image out
WrappedCall(img) == [img EXCEPT !.applied = @ + 1]

\* the wrapped operation "fails_on_2" raises on the image of id 2
WrappedRaises(operation, img) == operation = "fails_on_2" /\ img.id = 2

\* r <= probability, r in tenths
GateFires(r, probability) == r * probability.d <= 10 * probability.n

\* ImageTransformWrapper.__init__(operation, probability=probability, force_convert=force_convert)
ImageTransformWrapperInit(operation, probability, force_convert) ==
    IF probability.n < 0 \/ probability.n > probability.d
    THEN Fail("invalid probability value (range is [0,1]")
    ELSE [ok |-> TRUE, err |-> "none", kind |-> "ImageTransformWrapper",
          operation |-> operation, probability |-> probability,
          force_convert |-> force_convert]

\* AugmentorWrapper.__init__(pipeline): operations holds the probability of each
AugmentorWrapperInit(operations) ==
    [ok |-> TRUE, err |-> "none", kind |-> "AugmentorWrapper", operations |-> operations]

WrapReturn(value, draws) ==
    [status |-> "returned", ret |-> {value}, err |-> "none", draws |-> draws]

WrapRaise(e, draws) == [status |-> "raised", ret |-> {}, err |-> e, draws |-> draws]

\* lines 338-341, 250-253: samples as a list
AsSampleList(samples) == IF samples.k = "list" THEN samples.items ELSE <<samples>>

\* lines 360-362, 270-272: a one-element result of a non-list input is unwrapped
Unlist(in_list, out) == IF ~in_list /\ Len(out) = 1 THEN out[1] ELSE PyList(out)

\* an ImageTransformWrapper.__call__ that rolls the dice for each image
ImageTransformWrapperApplyEach(op, samples, us) ==
    LET in_list == samples.k \in {"none", "list"}
        lst == AsSampleList(samples)
        n == Len(lst)
        fire(i) == op.probability.n >= op.probability.d \/ GateFires(us[i], op.probability)
    IN IF in_list /\ (samples.k = "none" \/ Len(samples.items) = 0)
       THEN WrapReturn(samples, 0)
       ELSE IF lst[1].k \notin {"ndarray", "PIL"}
       THEN WrapRaise("unexpected input sample type (must be np.ndarray or PIL.Image)", 0)
       ELSE IF \E i \in 1..n : fire(i) /\ WrappedRaises(op.operation, lst[i])
       THEN WrapRaise("wrapped operation failed", n)
       ELSE WrapReturn(Unlist(in_list, [i \in 1..n |->
                                 IF fire(i) THEN WrappedCall(lst[i]) ELSE lst[i]]),
                       IF op.probability.n >= op.probability.d THEN 0 ELSE n)

\* ImageTransformWrapper.__call__(samples); us[1] is the draw, if one is made
ImageTransformWrapperApply(op, samples, us) ==
    LET in_list == samples.k \in {"none", "list"}
        lst == AsSampleList(samples)
        n == Len(lst)
        certain == op.probability.n >= op.probability.d
        draws == IF certain THEN 0 ELSE 1
        fire == certain \/ GateFires(us[1], op.probability)
    IN IF in_list /\ (samples.k = "none" \/ Len(samples.items) = 0)
       THEN WrapReturn(samples, 0)
       ELSE IF lst[1].k \notin {"ndarray", "PIL"}
       THEN WrapRaise("unexpected input sample type (must be np.ndarray or PIL.Image)", 0)
       ELSE IF fire /\ \E i \in 1..n : WrappedRaises(op.operation, lst[i])
       THEN WrapRaise("wrapped operation failed", draws)
       ELSE WrapReturn(Unlist(in_list, IF fire THEN [i \in 1..n |-> WrappedCall(lst[i])]
                                       ELSE lst),
                       draws)

\* an AugmentorWrapper.__call__ that returns what the pipeline's operations return: a list
AugmentorWrapperApplyListOut(op, samples, us) ==
    LET in_list == samples.k \in {"none", "list"}
        lst == AsSampleList(samples)
        ops == op.operations
        fired == Cardinality({j \in 1..Len(ops) : GateFires(us[j], ops[j])})
    IN IF in_list /\ (samples.k = "none" \/ Len(samples.items) = 0)
       THEN WrapReturn(samples, 0)
       ELSE IF lst[1].k \notin {"ndarray", "PIL"}
       THEN WrapRaise("unexpected input sample type (must be np.ndarray or PIL.Image)", 0)
       ELSE WrapReturn(PyList([i \in 1..Len(lst) |-> [lst[i] EXCEPT !.applied = @ + fired]]),
                       Len(ops))

\* AugmentorWrapper.__call__(samples); us[j] is the draw made for operation j
AugmentorWrapperApply(op, samples, us) ==
    LET in_list == samples.k \in {"none", "list"}
        lst == AsSampleList(samples)
        ops == op.operations
        fired == Cardinality({j \in 1..Len(ops) : GateFires(us[j], ops[j])})
    IN IF in_list /\ (samples.k = "none" \/ Len(samples.items) = 0)
       THEN WrapReturn(samples, 0)
       ELSE IF lst[1].k \notin {"ndarray", "PIL"}
       THEN WrapRaise("unexpected input sample type (must be np.ndarray or PIL.Image)", 0)
       ELSE WrapReturn(Unlist(in_list,
                              [i \in 1..Len(lst) |-> [lst[i] EXCEPT !.applied = @ + fired]]),
                       Len(ops))

\* what the caller's samples object holds after ImageTransformWrapper.__call__:
\* lines 353-359 assign to samples[idx], which is the caller's list when the
\* input is a list, and a raise of the operation leaves the loop where it is
ImageTransformWrapperCallerSamples(op, samples, us) ==
    LET lst == AsSampleList(samples)
        n == Len(lst)
        fire == op.probability.n >= op.probability.d \/ GateFires(us[1], op.probability)
        cvt_array == lst[1].k = "ndarray" /\ op.force_convert
        raising == {i \in 1..n : WrappedRaises(op.operation, lst[i])}
        stop == IF raising = {} THEN n + 1
                ELSE CHOOSE i \in raising : \A j \in raising : i <= j
    IN IF samples.k # "list" \/ n = 0 THEN samples
       ELSE IF lst[1].k \notin {"ndarray", "PIL"} \/ ~fire THEN samples
       ELSE PyList([i \in 1..n |->
                       IF i < stop THEN WrappedCall(lst[i])
                       ELSE IF i = stop /\ cvt_array THEN [lst[i] EXCEPT !.k = "PIL"]
                       ELSE lst[i]])

\* what the caller's samples object may hold after AugmentorWrapper.__call__:
\* lines 255-257 convert the arrays of the caller's list to PIL images in
\* place; an operation that is performed returns its images either in a new
\* list, which leaves the caller's list converted, or in the list it was given
AugmentorWrapperCallerSamples(op, samples, us) ==
    LET lst == AsSampleList(samples)
        ops == op.operations
        fired == Cardinality({j \in 1..Len(ops) : GateFires(us[j], ops[j])})
    IN IF samples.k # "list" \/ Len(lst) = 0 THEN {samples}
       ELSE IF lst[1].k \notin {"ndarray", "PIL"} \/ fired = 0 THEN {samples}
       ELSE {PyList([i \in 1..Len(lst) |-> [lst[i] EXCEPT !.k = "PIL"]]),
             PyList([i \in 1..Len(lst) |-> [lst[i] EXCEPT !.applied = @ + fired]])}

\* the outcome of a call together with the caller's samples object after it
WrapOutcome(out, caller) ==
    [status |-> out.status, ret |-> out.ret, err |-> out.err, draws |-> out.draws,
     caller |-> caller]

ImageKinds == {"ndarray", "PIL", "tensor"}

WrapSamples ==
    {PyNone}
    \cup {WrapImage(kind, 1) : kind \in ImageKinds}
    \cup {PyList([i \in 1..n |-> WrapImage(kind, i)]) : n \in 0..(MaxCount + 1), kind \in ImageKinds}

WrapProbabilities == {PyInt(0), PyFloat(1, 2), PyInt(1)}

TenthDraws == {0, 5, 10}

WrapperStart ==
    /\ \/ \E operation \in {"total", "fails_on_2"}, force_convert \in BOOLEAN,
             probability \in WrapProbabilities \cup {PyFloat(3, 2)} :
             wobj = ImageTransformWrapperInit(operation, probability, force_convert)
       \/ \E n \in 0..2 : \E operations \in [1..n -> WrapProbabilities] :
             wobj = AugmentorWrapperInit(operations)
    /\ wsamples \in WrapSamples
    /\ wpc = "ready"
    /\ wres = [status |-> "none", ret |-> {}, err |-> "none", draws |-> 0,
               caller |-> wsamples]

ImageTransformWrapperCall ==
    /\ wpc = "ready" /\ wobj.ok /\ wobj.kind = "ImageTransformWrapper"
    /\ \E us \in [1..(MaxCount + 1) -> TenthDraws] :
          wres' = WrapOutcome(ImageTransformWrapperApply(wobj, wsamples, us),
                              ImageTransformWrapperCallerSamples(wobj, wsamples, us))
    /\ wpc' = "called"
    /\ UNCHANGED <<wobj, wsamples>>
    /\ UNCHANGED <<firstVars, notWrapper>>

AugmentorWrapperCall ==
    /\ wpc = "ready" /\ wobj.ok /\ wobj.kind = "AugmentorWrapper"
    /\ \E us \in [1..Len(wobj.operations) -> TenthDraws] :
          \E caller \in AugmentorWrapperCallerSamples(wobj, wsamples, us) :
             wres' = WrapOutcome(AugmentorWrapperApply(wobj, wsamples, us), caller)
    /\ wpc' = "called"
    /\ UNCHANGED <<wobj, wsamples>>
    /\ UNCHANGED <<firstVars, notWrapper>>

WrapperNext == ImageTransformWrapperCall \/ AugmentorWrapperCall

(***************************************************************************)
(* Resize.  An image carries its number of channels ch (1 when 2-d); px    *)
(* holds one value per pixel, standing for the pixel's channel vector.     *)
(***************************************************************************)
ChannelImage(nd, h, w, ch) ==
    [ndim |-> nd, h |-> h, w |-> w, ch |-> ch,
     px |-> [p \in Pixels(h, w) |-> OwnPixel(p[1], p[2])]]

\* Resize.__init__(dsize, fx, fy, interp=cv.INTER_NEAREST, buffer=buffer), dsize = <<w, h>>
ResizeInit(dsize, fx, fy, buffer) ==
    IF fx < 0 \/ fy < 0
    THEN Fail("scale factors should be null (ignored) or positive")
    ELSE IF dsize[1] < 0 \/ dsize[2] < 0
    THEN Fail("destination image size should be null (ignored) or positive")
    ELSE IF fx = 0 /\ fy = 0 /\ dsize[1] = 0 /\ dsize[2] = 0
    THEN Fail("need to specify either destination size or scale factor(s)")
    ELSE [ok |-> TRUE, err |-> "none", dsize |-> dsize, fx |-> fx, fy |-> fy,
          buffer |-> buffer, dst |-> PyNone]

\* what a call returns or raises, and the instance after it
ResizeOutcome(status, ret, err, self) ==
    [status |-> status, ret |-> ret, err |-> err, self |-> self]

\* a resize that keeps its result in self.dst and hands out what it kept
ResizeUnbufferedKeepsDst(op, sample) ==
    LET r == CvResize(sample, op.dsize[1], op.dsize[2])
        out == {[ndim |-> 3, h |-> d.h, w |-> d.w, ch |-> sample.ch, px |-> d.px] :
                    d \in r.ret}
    IN IF op.dst # PyNone THEN ResizeOutcome("returned", {op.dst}, "none", op)
       ELSE IF out = {} THEN ResizeOutcome(r.status, out, r.err, op)
       ELSE ResizeOutcome(r.status, out, r.err, [op EXCEPT !.dst = CHOOSE d \in out : TRUE])

\* lines 747-750: dst = cv.resize(sample, self.dsize, ...), with a channel axis
ResizeUnbuffered(op, sample) ==
    LET r == CvResize(sample, op.dsize[1], op.dsize[2])
    IN ResizeOutcome(r.status,
                     {[ndim |-> 3, h |-> d.h, w |-> d.w, ch |-> sample.ch, px |-> d.px] :
                          d \in r.ret},
                     r.err, op)

\* Resize.__call__(sample)
ResizeApply(op, sample) ==
    IF sample.ndim < 2 \/ sample.ndim > 3
    THEN ResizeOutcome("raised", {}, "bad input dimensions; must be 2-d, or 3-d (with channels)", op)
    ELSE IF sample.ndim < 3 \/ sample.ch <= 4
    THEN IF op.buffer
         THEN \* line 742 drops what cv.resize returns; line 743 reads self.dst.ndim
              IF CvResize(sample, op.dsize[1], op.dsize[2]).status = "raised"
              THEN ResizeOutcome("raised", {}, "cv2.error", op)
              ELSE IF op.dst = PyNone
              THEN ResizeOutcome("raised", {},
                                 "AttributeError: 'NoneType' object has no attribute 'ndim'", op)
              ELSE ResizeOutcome("returned", {op.dst}, "none", op)
         ELSE ResizeUnbuffered(op, sample)
    ELSE \* line 757: slice[idx] subscripts the builtin type slice
         ResizeOutcome("raised", {}, "TypeError: 'type' object is not subscriptable", op)

ChannelCounts == {1, 3, 4, 5}

ResizeStart ==
    /\ \E w \in 0..2, h \in 0..2, buffer \in BOOLEAN :
          /\ (w = 0) = (h = 0)
          /\ zobj = ResizeInit(<<w, h>>, 0, 0, buffer)
    /\ \E h \in 1..MaxDim, w \in 1..MaxDim :
          zimg \in {ChannelImage(2, h, w, 1), ChannelImage(4, h, w, 1)}
                   \cup {ChannelImage(3, h, w, ch) : ch \in ChannelCounts}
    /\ zpc = "ready"
    /\ zres = NoImageResult

\* the first call on a fresh instance
ResizeCall ==
    /\ zpc = "ready" /\ zobj.ok
    /\ LET out == ResizeApply(zobj, zimg)
       IN /\ zres' = [status |-> out.status, ret |-> out.ret, err |-> out.err]
          /\ zobj' = out.self
    /\ zpc' = "called"
    /\ UNCHANGED zimg
    /\ UNCHANGED <<firstVars, notResize>>

\* a later call on the same instance
ResizeCallAgain ==
    /\ zpc = "called"
    /\ LET out == ResizeApply(zobj, zimg)
       IN /\ zres' = [status |-> out.status, ret |-> out.ret, err |-> out.err]
          /\ zobj' = out.self
    /\ zpc' = "called again"
    /\ UNCHANGED zimg
    /\ UNCHANGED <<firstVars, notResize>>

ResizeNext == ResizeCall \/ ResizeCallAgain

(***************************************************************************)
(* load_transforms.  A stage is a dictionary, given by the fields it has:  *)
(* operation (a class name, "" when missing or empty) and, for an          *)
(* "Augmentor.Pipeline", the fields of its parameters.                     *)
(***************************************************************************)
\* {"operation": name, "parameters": {...}}
PlainStage(name) == [operation |-> name, fields |-> {}, input_tensor |-> FALSE,
                     output_tensor |-> FALSE]

\* {"operation": "Augmentor.Pipeline", "parameters": {the fields named}}
AugmentorStage(fields, input_tensor, output_tensor) ==
    [operation |-> "Augmentor.Pipeline", fields |-> fields, input_tensor |-> input_tensor,
     output_tensor |-> output_tensor]

\* operation_type(**operation_params)
Constructed(name) == [k |-> "operation", name |-> name]

\* thelper.transforms.Compose(operations)
ComposeOf(operations) == [k |-> "Compose", transforms |-> operations]

\* lines 99-120: the operations one stage appends, or the error it raises
StageOperations(stage, stage_idx) ==
    IF stage.operation = ""
    THEN [ok |-> FALSE, err |-> <<"stage is missing its operation field", stage_idx>>, ops |-> <<>>]
    ELSE IF stage.operation = "Augmentor.Pipeline"
    THEN IF "input_tensor" \notin stage.fields
         THEN [ok |-> FALSE, ops |-> <<>>,
               err |-> <<"missing mandatory augmentor pipeline config 'input_tensor' field", stage_idx>>]
         ELSE IF "output_tensor" \notin stage.fields
         THEN [ok |-> FALSE, ops |-> <<>>,
               err |-> <<"missing mandatory augmentor pipeline config 'output_tensor' field", stage_idx>>]
         ELSE IF "operations" \notin stage.fields
         THEN [ok |-> FALSE, ops |-> <<>>,
               err |-> <<"missing mandatory augmentor pipeline config 'operations' field", stage_idx>>]
         ELSE [ok |-> TRUE, err |-> <<"none", stage_idx>>,
               ops |-> (IF stage.input_tensor
                        THEN <<Constructed("torchvision.transforms.ToPILImage")>> ELSE <<>>)
                       \o <<Constructed("AugmentorWrapper")>>
                       \o (IF stage.output_tensor
                           THEN <<Constructed("torchvision.transforms.ToTensor")>> ELSE <<>>)]
    ELSE [ok |-> TRUE, err |-> <<"none", stage_idx>>, ops |-> <<Constructed(stage.operation)>>]

\* lines 92-120: the loop over the stages, from stage_idx (0-based) on
RECURSIVE LoadStagesLoop(_, _, _)
LoadStagesLoop(stages, stage_idx, operations) ==
    IF stage_idx >= Len(stages) THEN [ok |-> TRUE, err |-> <<"none", stage_idx>>, ops |-> operations]
    ELSE LET s == StageOperations(stages[stage_idx + 1], stage_idx)
         IN IF ~s.ok THEN s
            ELSE LoadStagesLoop(stages, stage_idx + 1, operations \o s.ops)

\* load_transforms(stages)
LoadTransforms(stages) ==
    IF stages.k # "list"
    THEN [status |-> "raised", ret |-> {}, err |-> <<"expected stages to be provided as a list", 0>>]
    ELSE IF Len(stages.items) = 0
    THEN [status |-> "returned", err |-> <<"none", 0>>,
          ret |-> {PyTuple(<<PyNone, [k |-> "bool", v |-> TRUE]>>)}]
    ELSE LET loaded == LoadStagesLoop(stages.items, 0, <<>>)
         IN IF ~loaded.ok THEN [status |-> "raised", ret |-> {}, err |-> loaded.err]
            ELSE [status |-> "returned", err |-> <<"none", 0>>,
                  ret |-> IF Len(loaded.ops) > 1 THEN {ComposeOf(loaded.ops)}
                          ELSE IF Len(loaded.ops) = 1 THEN {loaded.ops[1]}
                          ELSE {PyNone}]

AugmentorFields == {"input_tensor", "output_tensor", "operations"}

Stages ==
    {PlainStage(name) : name \in {"", "thelper.transforms.CenterCrop", "thelper.transforms.ToNumpy"}}
    \cup {AugmentorStage(AugmentorFields, i, o) : i \in BOOLEAN, o \in BOOLEAN}
    \cup {AugmentorStage(AugmentorFields \ {f}, TRUE, TRUE) : f \in AugmentorFields}

LoadStart ==
    /\ lstages \in {PyNone} \cup {PyList(items) : items \in UNION {[1..n -> Stages] : n \in 0..MaxLen}}
    /\ lpc = "ready"
    /\ lres = [status |-> "none", ret |-> {}, err |-> <<"none", 0>>]

LoadTransformsCall ==
    /\ lpc = "ready"
    /\ lres' = LoadTransforms(lstages)
    /\ lpc' = "loaded"
    /\ UNCHANGED lstages
    /\ UNCHANGED <<firstVars, notLoad>>

(***************************************************************************)
(* One pipeline shared by two workers.  Each worker holds its own sample   *)
(* and runs Compose.__call__ or Compose.invert on the shared instances,    *)
(* one stage per step, so that the stages of the two calls interleave in   *)
(* every order.  A stage reads the attributes of its instance and leaves   *)
(* the instance as its __call__ leaves it.                                 *)
(***************************************************************************)
Workers == {1, 2}

ResizeStage(dsize, buffer) == [cls |-> "Resize", self |-> ResizeInit(dsize, 0, 0, buffer)]

CenterCropStage(size) ==
    [cls |-> "CenterCrop", self |-> CenterCropInit(size, "BORDER_CONSTANT", BorderVal)]

\* t(sample) for a stage t of the pipeline: the outcome and the instance after it
StageApply(stage, sample) ==
    IF stage.cls = "Resize" THEN ResizeApply(stage.self, sample)
    ELSE LET r == CenterCropApply(stage.self, sample)
         IN ResizeOutcome(r.status,
                          {[ndim |-> d.ndim, h |-> d.h, w |-> d.w, ch |-> sample.ch,
                            px |-> d.px] : d \in r.ret},
                          r.err, stage.self)

\* t.invert(sample): Resize.invert (lines 762-765) and CenterCrop.invert
\* (lines 498-500) raise
StageInvert(stage, sample) ==
    IF stage.cls = "Resize"
    THEN ResizeOutcome("raised", {}, "missing implementation", stage.self)
    ELSE ResizeOutcome("raised", {}, "cannot be inverted", stage.self)

\* Compose.__call__(sample) from stage k on, run alone on the instances ts
RECURSIVE ComposeCallAlone(_, _, _)
ComposeCallAlone(ts, k, sample) ==
    IF k > Len(ts) THEN [status |-> "returned", ret |-> {sample}, err |-> "none"]
    ELSE LET out == StageApply(ts[k], sample)
         IN IF out.status = "raised"
            THEN [status |-> "raised", ret |-> {}, err |-> out.err]
            ELSE ComposeCallAlone(ts, k + 1, CHOOSE v \in out.ret : TRUE)

\* Compose.invert(sample) from stage k down, run alone on the instances ts
RECURSIVE ComposeInvertAlone(_, _, _)
ComposeInvertAlone(ts, k, sample) ==
    IF k < 1 THEN [status |-> "returned", ret |-> {sample}, err |-> "none"]
    ELSE LET out == StageInvert(ts[k], sample)
         IN IF out.status = "raised"
            THEN [status |-> "raised", ret |-> {}, err |-> out.err]
            ELSE ComposeInvertAlone(ts, k - 1, CHOOSE v \in out.ret : TRUE)

SharedStages ==
    {ResizeStage(<<w, 1>>, buffer) : w \in 1..2, buffer \in BOOLEAN}
    \cup {CenterCropStage(<<PyInt(n), PyInt(n)>>) : n \in 1..2}

SharedSamples == {ChannelImage(3, h, w, 3) : h \in {1, MaxDim}, w \in {1, MaxDim}}

SharedStart ==
    /\ \E n \in 1..MaxStages : spipe \in [1..n -> SharedStages]
    /\ sbuilt = spipe
    /\ \E samples \in [Workers -> SharedSamples], modes \in [Workers -> {"call", "invert"}] :
          swork = [w \in Workers |->
                      [mode |-> modes[w], sample |-> samples[w], done |-> 0,
                       value |-> samples[w], status |-> "running", err |-> "none"]]
    /\ sorder = <<>>

\* what a worker holds after a stage gave out
WorkerAfter(held, out, n) ==
    IF out.status = "raised"
    THEN [held EXCEPT !.status = "raised", !.err = out.err]
    ELSE [held EXCEPT !.value = CHOOSE v \in out.ret : TRUE,
                      !.done = @ + 1,
                      !.status = IF held.done + 1 = n THEN "returned" ELSE "running"]

\* one pass of "for t in self.transforms: sample = t(sample)" in one worker
SharedStageCall ==
    /\ \E w \in Workers :
          /\ swork[w].status = "running" /\ swork[w].mode = "call"
          /\ LET k == swork[w].done + 1
                 out == StageApply(spipe[k], swork[w].value)
             IN /\ spipe' = [spipe EXCEPT ![k].self = out.self]
                /\ swork' = [swork EXCEPT ![w] = WorkerAfter(@, out, Len(spipe))]
          /\ sorder' = Append(sorder, w)
    /\ UNCHANGED sbuilt
    /\ UNCHANGED <<firstVars, notShared>>

\* one pass of "for t in reversed(self.transforms): sample = t.invert(sample)"
\* in one worker (lines 383-387)
SharedStageInvert ==
    /\ \E w \in Workers :
          /\ swork[w].status = "running" /\ swork[w].mode = "invert"
          /\ LET k == Len(spipe) - swork[w].done
                 out == StageInvert(spipe[k], swork[w].value)
             IN /\ spipe' = [spipe EXCEPT ![k].self = out.self]
                /\ swork' = [swork EXCEPT ![w] = WorkerAfter(@, out, Len(spipe))]
          /\ sorder' = Append(sorder, w)
    /\ UNCHANGED sbuilt
    /\ UNCHANGED <<firstVars, notShared>>

SharedNext == SharedStageCall \/ SharedStageInvert

\* the components a specification does not exercise
TransposeIdle == tobj = NoneVal /\ tarr = NoneVal /\ tpc = "idle" /\ tres = NoneVal
DuplicatorIdle == dobj = NoneVal /\ dsample = NoneVal /\ dpc = "idle" /\ dres = NoneVal
TileIdle ==
    /\ tileobj = NoneVal /\ tileimg = NoneVal /\ tilemask = NoneVal
    /\ tilepc = "idle" /\ tileres = NoneVal
NormalizeIdle == nobj = NoneVal /\ nsample = NoneVal /\ npc = "idle" /\ nres = NoneVal
WrapperIdle == wobj = NoneVal /\ wsamples = NoneVal /\ wpc = "idle" /\ wres = NoneVal
ResizeIdle == zobj = NoneVal /\ zimg = NoneVal /\ zpc = "idle" /\ zres = NoneVal
LoadIdle == lstages = NoneVal /\ lpc = "idle" /\ lres = NoneVal
SharedIdle == spipe = NoneVal /\ sbuilt = NoneVal /\ swork = NoneVal /\ sorder = NoneVal
FirstIdle == ComposeIdle /\ CropIdle /\ RRCIdle /\ AffineIdle
SecondIdle ==
    /\ TransposeIdle /\ DuplicatorIdle /\ TileIdle /\ NormalizeIdle
    /\ WrapperIdle /\ ResizeIdle /\ LoadIdle /\ SharedIdle

InitCompose == ComposeInit /\ CropIdle /\ RRCIdle /\ AffineIdle /\ SecondIdle

SpecCompose == InitCompose /\ [][ComposeNext]_vars

InitCrop == CropInit /\ ComposeIdle /\ RRCIdle /\ AffineIdle /\ SecondIdle

InitRRC == RRCStart /\ ComposeIdle /\ CropIdle /\ AffineIdle /\ SecondIdle

SpecRRC == InitRRC /\ [][RRCNext]_vars

InitAffine == AffineStart /\ ComposeIdle /\ CropIdle /\ RRCIdle /\ SecondIdle

SpecAffine == InitAffine /\ [][AffineNext]_vars

SpecCrop == InitCrop /\ [][CropNext]_vars

InitTranspose ==
    /\ TransposeStart /\ FirstIdle /\ DuplicatorIdle /\ TileIdle /\ NormalizeIdle
    /\ WrapperIdle /\ ResizeIdle /\ LoadIdle /\ SharedIdle

SpecTranspose == InitTranspose /\ [][TransposeNext]_vars

InitDuplicator ==
    /\ DuplicatorStart /\ FirstIdle /\ TransposeIdle /\ TileIdle /\ NormalizeIdle
    /\ WrapperIdle /\ ResizeIdle /\ LoadIdle /\ SharedIdle

SpecDuplicator == InitDuplicator /\ [][DuplicatorNext]_vars

InitTile ==
    /\ TileStart /\ FirstIdle /\ TransposeIdle /\ DuplicatorIdle /\ NormalizeIdle
    /\ WrapperIdle /\ ResizeIdle /\ LoadIdle /\ SharedIdle

SpecTile == InitTile /\ [][TileNext]_vars

InitNormalize ==
    /\ NormalizeStart /\ FirstIdle /\ TransposeIdle /\ DuplicatorIdle /\ TileIdle
    /\ WrapperIdle /\ ResizeIdle /\ LoadIdle /\ SharedIdle

SpecNormalize == InitNormalize /\ [][NormalizeNext]_vars

InitWrapper ==
    /\ WrapperStart /\ FirstIdle /\ TransposeIdle /\ DuplicatorIdle /\ TileIdle
    /\ NormalizeIdle /\ ResizeIdle /\ LoadIdle /\ SharedIdle

SpecWrapper == InitWrapper /\ [][WrapperNext]_vars

InitResize ==
    /\ ResizeStart /\ FirstIdle /\ TransposeIdle /\ DuplicatorIdle /\ TileIdle
    /\ NormalizeIdle /\ WrapperIdle /\ LoadIdle /\ SharedIdle

SpecResize == InitResize /\ [][ResizeNext]_vars

InitLoad ==
    /\ LoadStart /\ FirstIdle /\ TransposeIdle /\ DuplicatorIdle /\ TileIdle
    /\ NormalizeIdle /\ WrapperIdle /\ ResizeIdle /\ SharedIdle

SpecLoad == InitLoad /\ [][LoadTransformsCall]_vars

InitShared ==
    /\ SharedStart /\ FirstIdle /\ TransposeIdle /\ DuplicatorIdle /\ TileIdle
    /\ NormalizeIdle /\ WrapperIdle /\ ResizeIdle /\ LoadIdle

SpecShared == InitShared /\ [][SharedNext]_vars

(***************************************************************************)
(* Claims about Compose, under SpecCompose.                                *)
(***************************************************************************)
LacksInvert == {i \in 1..Len(transforms) : ~HasInvert(transforms[i])}

\* the operation without invert that the reverse walk meets first
LastLacking == CHOOSE j \in LacksInvert : \A m \in LacksInvert : m <= j

InvertHist(n) == [i \in 1..n |-> <<"invert", n + 1 - i>>]
CallHist(n) == [i \in 1..n |-> <<"call", i>>]

\* C1: when every operation of [t1..tn] has an invert, Compose.invert applies
\* tn.invert first, then t(n-1).invert to its result, ... down to t1.invert,
\* each once, and returns the last result (it stops only where an invert
\* itself raises); Compose.__call__ applies t1..tn in construction order.
C1_InvertReverseOrder ==
    LET n == Len(transforms) IN
    /\ (cpc = "inverted" /\ LacksInvert = {}) =>
          /\ cres.status = "returned" =>
                /\ cres.applied = Down(n, 1)
                /\ \A s \in cres.ret : s.hist = InvertHist(n)
                /\ Cardinality(cres.ret) = 1
          /\ cres.status = "raised" =>
                /\ cres.at \in 1..n
                /\ cres.applied = Down(n, cres.at + 1)
                /\ cres.err \in {"invalid sample type (should be list)",
                                 "invalid sample list length", "cannot be inverted"}
          /\ (\A i \in 1..n : transforms[i].kind = "NormalizeMinMax") =>
                cres.status = "returned"
    /\ (cpc = "called" /\ cres.status = "returned") =>
          /\ cres.applied = Up(1, n)
          /\ \A s \in cres.ret : s.hist = CallHist(n)

C1_Witness ==
    /\ cpc = "inverted"
    /\ cres.status = "returned"
    /\ Len(transforms) = 3
    /\ transforms[1].kind = "NormalizeMinMax"
    /\ transforms[2].kind = "NormalizeMinMax"
    /\ transforms[3].kind = "Duplicator"

\* C2: a pipeline holding an operation without invert support, at any
\* position, makes Compose.invert raise and return no sample, for every sample.
C2_InvertRaisesIfAnyLacks ==
    (cpc = "inverted" /\ LacksInvert # {}) =>
        (cres.status = "raised" /\ cres.ret = {})

C2_Witness ==
    /\ cpc = "inverted"
    /\ Len(transforms) >= 2
    /\ LacksInvert = {1}
    /\ \A i \in 2..Len(transforms) : transforms[i].kind = "NormalizeMinMax"
    /\ cres.status = "raised"

\* C3 as stated: with an operation lacking invert support in the pipeline,
\* the missing-invert error is raised before any invert has been applied,
\* whatever the sample and the position of that operation.
C3_RaisesBeforeAnyInvert ==
    (cpc = "inverted" /\ LacksInvert # {}) =>
        (cres.err = "missing invert op" /\ cres.applied = <<>>)

\* C3, amended: with an operation lacking invert support in the pipeline,
\* Compose.invert returns no sample; the missing-invert error is raised when
\* the reverse walk reaches the last such operation, after the inverts of all
\* the operations behind it have been applied in reverse order; an invert
\* raising before that point ends the call with its own error instead.
C3_RaisesWhenWalkReachesIt ==
    (cpc = "inverted" /\ LacksInvert # {}) =>
        /\ cres.status = "raised"
        /\ cres.ret = {}
        /\ cres.at >= LastLacking
        /\ (cres.err = "missing invert op") <=> (cres.at = LastLacking)
        /\ cres.applied = Down(Len(transforms), cres.at + 1)
        /\ cres.at > LastLacking => HasInvert(transforms[cres.at])

C3_Witness ==
    /\ cpc = "inverted"
    /\ LacksInvert # {}
    /\ cres.err = "missing invert op"
    /\ Len(cres.applied) >= 2

(***************************************************************************)
(* Claims about safe_crop and CenterCrop, under SpecCrop.                  *)
(***************************************************************************)
\* img is the h x w window of kimg whose top-left pixel is column x0, row y0
\* of kimg, the pixels outside of kimg being those of the border padding
IsWindowOf(img, x0, y0, h, w, bordertype, borderval) ==
    /\ img.h = h
    /\ img.w = w
    /\ DOMAIN img.px = Pixels(h, w)
    /\ \A p \in DOMAIN img.px :
          img.px[p] = BorderPixel(kimg, y0 + p[1], x0 + p[2], bordertype, borderval)

\* C7: a CenterCrop of absolute size (w, h) on a 2-D or 3-D image of any size
\* H x W returns exactly h rows and w columns, padded where the image is too
\* small, and its box has top-left (W // 2 - w // 2, H // 2 - h // 2).
C7_CenterCropShape ==
    (kpc = "CenterCrop" /\ ~kargs.relative /\ kimg.ndim \in 2..3) =>
        /\ kres.status = "returned"
        /\ Cardinality(kres.ret) = 1
        /\ \A img \in kres.ret :
              IsWindowOf(img, kimg.w \div 2 - kargs.size[1].n \div 2,
                         kimg.h \div 2 - kargs.size[2].n \div 2,
                         kargs.size[2].n, kargs.size[1].n,
                         kargs.bordertype, kargs.borderval)

C7_Witness ==
    /\ kpc = "CenterCrop"
    /\ ~kargs.relative
    /\ kimg.ndim = 3
    /\ kimg.w = 2 /\ kargs.size[1].n = 5
    /\ kimg.h = 3 /\ kargs.size[2].n = 2
    /\ kres.status = "returned"

\* C8: for corners tl = (x0, y0), br = (x1, y1) with x1 >= x0 and y1 >= y0,
\* inside, across or outside the image, safe_crop returns y1 - y0 rows and
\* x1 - x0 columns; pixels at positions of the image are the image's, the
\* others are those of the border padding.
C8_SafeCropExactSize ==
    kpc = "safe_crop" =>
        /\ Cardinality(kres.ret) = 1
        /\ \A img \in kres.ret :
              IsWindowOf(img, kargs.tl[1], kargs.tl[2],
                         kargs.br[2] - kargs.tl[2], kargs.br[1] - kargs.tl[1],
                         kargs.bordertype, kargs.borderval)

C8_Witness ==
    /\ kpc = "safe_crop"
    /\ kargs.tl[1] < 0 /\ kargs.br[1] > kimg.w
    /\ kargs.tl[2] > kimg.h /\ kargs.br[2] > kargs.tl[2]
    /\ kargs.bordertype = "BORDER_REPLICATE"

(***************************************************************************)
(* Claims about RandomResizedCrop, under SpecRRC.                          *)
(***************************************************************************)
\* the configured output size on an H x W image, as (width, height)
ExpectedOutWidth ==
    IF IsFloat(robj.output_size[1])
    THEN RoundHalfEven(robj.output_size[1].n * rimg.w, robj.output_size[1].d)
    ELSE robj.output_size[1].n

ExpectedOutHeight ==
    IF IsFloat(robj.output_size[2])
    THEN RoundHalfEven(robj.output_size[2].n * rimg.h, robj.output_size[2].d)
    ELSE robj.output_size[2].n

Exhausted ==
    /\ rpc = "done"
    /\ rloop.gate = "applied"
    /\ rloop.attempt = robj.random_attempts

\* C4: when none of the random_attempts attempts gives a region that fits,
\* the call does not raise: it takes the centred square of side min(H, W),
\* top-left ((W - side) // 2, (H - side) // 2), and returns it resized to the
\* output size.
C4_FallbackOnExhaustion ==
    (Exhausted /\ ExpectedOutWidth > 0 /\ ExpectedOutHeight > 0) =>
        LET side == Min(rimg.h, rimg.w)
            x0 == (rimg.w - side) \div 2
            y0 == (rimg.h - side) \div 2
        IN /\ rres.status = "returned"
           /\ rres = CvResize(SafeCrop(rimg, <<x0, y0>>, <<x0 + side, y0 + side>>,
                                       "BORDER_CONSTANT", BorderVal),
                              ExpectedOutWidth, ExpectedOutHeight)

\* C5 as stated: whatever the configuration (probability < 1 included) and
\* the draws, the returned image has the configured output size.
C5_ShapeAlwaysOutputSize ==
    (rpc = "done" /\ rres.status = "returned") =>
        \A img \in rres.ret : img.w = ExpectedOutWidth /\ img.h = ExpectedOutHeight

\* C5, amended: every image returned by a call whose probability gate lets
\* the operation run has the configured output size (absolute, or the rounded
\* product with the input size); a call whose gate skips the operation
\* returns its input, of the input's own size.
C5_ShapeWhenApplied ==
    (rpc = "done" /\ rres.status = "returned") =>
        /\ Cardinality(rres.ret) = 1
        /\ rloop.gate = "applied" =>
              \A img \in rres.ret :
                  /\ img.w = ExpectedOutWidth /\ img.h = ExpectedOutHeight
                  /\ DOMAIN img.px = Pixels(ExpectedOutHeight, ExpectedOutWidth)
        /\ rloop.gate = "skipped" =>
              /\ rres.ret = {rimg}
              /\ NumLess(robj.probability, PyInt(1))

C5_Witness ==
    /\ rpc = "done"
    /\ rres.status = "returned"
    /\ rloop.gate = "applied"
    /\ NumLess(robj.probability, PyInt(1))
    /\ IsFloat(robj.output_size[1])
    /\ rimg.w = 3 /\ rimg.h = 2
    /\ rloop.width.n = 2 /\ rloop.height.n = 1

ExplicitRangeArgs ==
    /\ rargs.input_size.k \in {"tuple", "list"}
    /\ \A i \in 1..2 : IsSeq(rargs.input_size.items[i])
    /\ rargs.ratio = PyNone
    /\ RRCOutputSize(rargs.output_size).ok

\* C6: RandomResizedCrop can be built in explicit-range mode, input_size a
\* pair of (width, height) pairs of one numeric kind and no aspect ratio:
\* construction succeeds with ratio unset (and each call then draws the
\* region width and height from their own ranges).
C6_ExplicitRangeConstructs ==
    (rpc \in {"built", "failed"} /\ ExplicitRangeArgs) =>
        /\ rpc = "built"
        /\ robj.ok
        /\ robj.ratio = PyNone

(***************************************************************************)
(* Claims about Affine, under SpecAffine.                                  *)
(***************************************************************************)
\* the sample Affine.invert was given
InvertedSample == IF apc = "inverted" THEN aimg ELSE CHOOSE y \in afwd.ret : TRUE

\* C9: Affine.invert raises for every sample when out_size was given at
\* construction; otherwise it never raises the unknown-size error and warps
\* with the same matrix, border mode and border value, the sample's own
\* (width, height) as output size, and the construction flags with only the
\* inverse-map bit toggled.
C9_InvertWarpArguments ==
    (apc \in {"inverted", "roundtrip"}) =>
        /\ aobj.out_size # PyNone =>
              /\ ares.status = "raised"
              /\ ares.ret = {}
              /\ ares.err = "unknown original image size, cannot invert affine transform"
        /\ aobj.out_size = PyNone =>
              /\ ares.status = "returned"
              /\ Cardinality(ares.ret) = 1
              /\ ares.warp.M = aobj.transf
              /\ ares.warp.borderMode = aobj.border_mode
              /\ ares.warp.borderValue = aobj.border_val
              /\ ares.warp.dsize = <<InvertedSample.w, InvertedSample.h>>
              /\ HasFlag(ares.warp.flags, 16) # HasFlag(aobj.flags, 16)
              /\ ares.warp.flags % 16 = aobj.flags % 16
              /\ ares.warp.flags \div 32 = aobj.flags \div 32

C9_Witness ==
    /\ apc = "inverted"
    /\ aobj.out_size = PyNone
    /\ aobj.flags = 17
    /\ ares.status = "returned"
    /\ ares.warp.flags = 1

\* C10 as stated: without out_size and with a pure translation or rotation,
\* Affine.invert(Affine(x)) equals x, pixel for pixel, for every image x.
C10_RoundTripExact ==
    (apc = "roundtrip" /\ aobj.out_size = PyNone) => ares.ret = {aimg}

\* where the forward warp puts the pixel at column x, row y (0-based)
ForwardPosition(x, y) ==
    IF HasFlag(aobj.flags, 16)
    THEN MapPoint(InvertAffineTransform(aobj.transf), x, y)
    ELSE MapPoint(aobj.transf, x, y)

\* C10, amended: without out_size and with a whole-pixel translation (or a
\* quarter-turn rotation), Affine.invert(Affine(x)) has the size of x and
\* equals x at every pixel whose forward position lies inside the frame; the
\* pixels moved out of the frame are lost: with a constant border they come
\* back as the border value.
C10_RoundTripInsideFrame ==
    (apc = "roundtrip" /\ aobj.out_size = PyNone) =>
        /\ ares.status = "returned"
        /\ Cardinality(ares.ret) = 1
        /\ \A img \in ares.ret :
              /\ img.h = aimg.h /\ img.w = aimg.w
              /\ DOMAIN img.px = Pixels(aimg.h, aimg.w)
              /\ \A p \in Pixels(aimg.h, aimg.w) :
                    LET q == ForwardPosition(p[2] - 1, p[1] - 1)
                    IN IF q[1] \in 0..(aimg.w - 1) /\ q[2] \in 0..(aimg.h - 1)
                       THEN img.px[p] = aimg.px[p]
                       ELSE aobj.border_mode = "BORDER_CONSTANT" =>
                                img.px[p] = aobj.border_val

C10_Witness ==
    /\ apc = "roundtrip"
    /\ aobj.out_size = PyNone
    /\ aobj.transf = <<1, 0, 1, 0, 1, 0>>
    /\ aobj.border_mode = "BORDER_CONSTANT"
    /\ aobj.flags = 1
    /\ aimg.w = 3
    /\ \E img \in ares.ret :
          /\ img.px[<<1, 1>>] = aimg.px[<<1, 1>>]
          /\ img.px[<<1, 3>>] = 0

(***************************************************************************)
(* Claims about Transpose, under SpecTranspose.                            *)
(***************************************************************************)
IsPermutation(axes) == \A j \in 0..(Len(axes) - 1) : \E i \in 1..Len(axes) : axes[i] = j

\* C11: for every axes list that is a permutation of 0..n-1, the stored
\* axes_inv satisfies axes_inv[axes[i]] = i for all i, and both
\* Transpose.invert(Transpose(x)) and Transpose(Transpose.invert(x)) return x,
\* axis order and content.
C11_TransposeRoundTrip ==
    (tpc # "idle" /\ tobj.ok /\ IsPermutation(tobj.axes)) =>
        /\ \A i \in 1..Len(tobj.axes) : tobj.axes_inv[tobj.axes[i] + 1] = PyInt(i - 1)
        /\ tpc \in {"roundtrip", "backtrip"} =>
              /\ tres.first.status = "returned"
              /\ tres.second.status = "returned"
              /\ tres.second.ret = {tarr}

C11_Witness ==
    /\ tpc = "roundtrip"
    /\ tobj.ok
    /\ tobj.axes = <<1, 2, 0>>
    /\ tarr.shape = <<1, 2, 2>>
    /\ tres.first.ret # {tarr}
    /\ \E y \in tres.first.ret : y.shape = <<2, 2, 1>>
    /\ tres.second.ret = {tarr}

(***************************************************************************)
(* Claims about Duplicator, under SpecDuplicator.                          *)
(***************************************************************************)
\* C12: construction with count <= 0 raises; for count k >= 1 the call
\* returns a list of exactly k elements each equal to the sample; invert on
\* a list of exactly k elements returns its first element (so invert of the
\* call's output is the sample), and invert on a list of another length or
\* on a non-list raises.
C12_DuplicatorContract ==
    (dpc # "idle") =>
        /\ dobj.count <= 0 => ~dobj.self.ok /\ dobj.self.err = "invalid copy count"
        /\ dobj.count >= 1 =>
              /\ dobj.self.ok
              /\ dpc \in {"called", "roundtrip"} =>
                    /\ dres.call.status = "returned"
                    /\ \A y \in dres.call.ret :
                          /\ y.k = "list"
                          /\ Len(y.items) = dobj.count
                          /\ \A i \in 1..Len(y.items) : y.items[i] = dsample
              /\ dpc = "roundtrip" =>
                    dres.inv.status = "returned" /\ dres.inv.ret = {dsample}
              /\ dpc = "inverted" =>
                    IF dsample.k = "list" /\ Len(dsample.items) = dobj.count
                    THEN dres.inv.status = "returned" /\ dres.inv.ret = {dsample.items[1]}
                    ELSE dres.inv.status = "raised" /\ dres.inv.ret = {}

C12_Witness ==
    /\ dpc = "roundtrip"
    /\ dobj.count = 2
    /\ dsample = DupImage(1)
    /\ \E y \in dres.call.ret : y.items = <<DupImage(1), DupImage(1)>>
    /\ dres.inv.ret = {DupImage(1)}

(***************************************************************************)
(* Claims about Tile, under SpecTile.                                      *)
(***************************************************************************)
\* C13: for every Tile, image and optional mask, the count count_tiles
\* returns is the length of the list __call__ returns on the same inputs,
\* the cases with zero tiles included.
C13_CountEqualsTiles ==
    (tilepc \in {"tiled", "inverted"} /\ tileres.count.status = "returned") =>
        /\ tileres.call.status = "returned"
        /\ \A n \in tileres.count.ret : \A tiles \in tileres.call.ret : Len(tiles) = n

\* the same, for the calls of __call__ that return
C13_CountEqualsTilesReturned ==
    (tilepc \in {"tiled", "inverted"} /\ tileres.call.status = "returned") =>
        /\ tileres.count.status = "returned"
        /\ \A n \in tileres.count.ret : \A tiles \in tileres.call.ret : Len(tiles) = n

\* C14: with zero overlap, no mask and an image whose width and height are
\* multiples of the tile size, invert on the tiles __call__ returned gives
\* back the image.
C14_InvertRebuildsImage ==
    (/\ tilepc = "inverted"
     /\ tilemask.kind = "none"
     /\ tileobj.tile_overlap.n = 0
     /\ IsInt(tileobj.tile_size[1])
     /\ tileobj.tile_size[1].n > 0 /\ tileobj.tile_size[2].n > 0
     /\ tileimg.img.w % tileobj.tile_size[1].n = 0
     /\ tileimg.img.h % tileobj.tile_size[2].n = 0) =>
        tileres.inv.status = "returned" /\ tileres.inv.ret = {tileimg.img}

(***************************************************************************)
(* Claims about the normalizations, under SpecNormalize.                   *)
(***************************************************************************)
\* |invert(call(x)) - x| on channel i
RoundTripError(i) == RatAbs(RatSub(nres.inv[i], nsample[i]))

\* what four roundings to MantissaBits bits can add up to on channel i:
\* 2^-MantissaBits * (|x| + 4 |x - a|)
FloatTolerance(i) ==
    RatMul(Rat(1, Pow2(MantissaBits)),
           RatAdd(RatAbs(nsample[i]),
                  RatMul(Rat(4, 1), RatAbs(RatSub(nsample[i], Channel(nobj.a, i))))))

\* C15 as stated: for every valid parameters and every sample, invert(call(x))
\* equals x up to the precision of the output type: the rounding error of a
\* floating out_type, one unit of an integer out_type.
C15_RoundTripWithinPrecision ==
    (npc = "roundtrip") =>
        \A i \in 1..Len(nsample) :
            RatLeq(RoundTripError(i),
                   IF nobj.out_type = "float" THEN FloatTolerance(i) ELSE Rat(1, 1))

\* C15, amended: with a floating out_type invert(call(x)) equals x up to the
\* rounding error of the type; with an integer out_type the call truncates
\* (x - a) / b, and invert(call(x)) is only within less than |b| of x.
C15_RoundTripWithinScale ==
    (npc = "roundtrip") =>
        /\ Len(nres.inv) = Len(nsample)
        /\ \A i \in 1..Len(nsample) :
              IF nobj.out_type = "float"
              THEN RatLeq(RoundTripError(i), FloatTolerance(i))
              ELSE /\ RatLeq(RoundTripError(i), RatAbs(Channel(nobj.b, i)))
                   /\ RoundTripError(i) # RatAbs(Channel(nobj.b, i))

C15_Witness ==
    /\ npc = "roundtrip"
    /\ nobj.kind = "NormalizeZeroMeanUnitVar"
    /\ nobj.out_type = "float"
    /\ nobj.a = <<Rat(1, 2)>>
    /\ nobj.b = <<Rat(3, 1)>>
    /\ nsample = <<Rat(7, 1)>>
    /\ nres.call = <<Rat(9, 4)>>
    /\ nres.inv = <<Rat(15, 2)>>
    /\ RoundTripError(1) # Rat(0, 1)


(***************************************************************************)
(* Claims about the wrappers, under SpecWrapper.                           *)
(***************************************************************************)
\* C16: a call of ImageTransformWrapper on a list of n images that completes
\* makes at most one draw and applies the wrapped operation to all n images
\* or to none; with probability >= 1 it makes no draw and applies it to all.
C16_AllOrNone ==
    (/\ wpc = "called" /\ wobj.kind = "ImageTransformWrapper"
     /\ wres.status = "returned" /\ wsamples.k = "list") =>
        /\ wres.draws <= 1
        /\ \A r \in wres.ret :
              /\ r.k = "list" /\ Len(r.items) = Len(wsamples.items)
              /\ \/ \A i \in 1..Len(r.items) :
                       r.items[i].applied = wsamples.items[i].applied + 1
                 \/ \A i \in 1..Len(r.items) :
                       r.items[i].applied = wsamples.items[i].applied
              /\ wobj.probability.n >= wobj.probability.d =>
                    /\ wres.draws = 0
                    /\ \A i \in 1..Len(r.items) :
                          r.items[i].applied = wsamples.items[i].applied + 1

C16_Witness ==
    /\ wpc = "called" /\ wobj.kind = "ImageTransformWrapper"
    /\ wobj.probability = PyFloat(1, 2)
    /\ wsamples.k = "list" /\ Len(wsamples.items) = 3
    /\ wres.status = "returned" /\ wres.draws = 1
    /\ \E r \in wres.ret : \A i \in 1..3 : r.items[i].applied = 1

\* C17: both wrappers, around one-to-one operations, return a single
\* non-list image for a single non-list image and a list of n images for a
\* list of n images (one element stays a one-element list, an empty list is
\* returned as is), whether or not a gate fires.
C17_KeepsCardinality ==
    (wpc = "called" /\ wres.status = "returned") =>
        \A r \in wres.ret :
            IF wsamples.k = "list"
            THEN /\ r.k = "list" /\ Len(r.items) = Len(wsamples.items)
                 /\ \A i \in 1..Len(r.items) : r.items[i].id = wsamples.items[i].id
                 /\ Len(wsamples.items) = 0 => r = wsamples
            ELSE IF wsamples.k = "none" THEN r = wsamples
            ELSE r.k = wsamples.k /\ r.id = wsamples.id

C17_Witness ==
    /\ wpc = "called" /\ wobj.kind = "AugmentorWrapper"
    /\ wsamples = WrapImage("ndarray", 1)
    /\ wres.status = "returned"
    /\ \E r \in wres.ret : r.k = "ndarray" /\ r.applied = 2

(***************************************************************************)
(* Claims about Resize, under SpecResize.                                  *)
(***************************************************************************)
\* zres is the resize of zimg to the configured destination size
IsResizedSample ==
    /\ zres.status = "returned"
    /\ \A r \in zres.ret :
          /\ r.w = zobj.dsize[1] /\ r.h = zobj.dsize[2] /\ r.ch = zimg.ch
          /\ \A d \in CvResize(zimg, zobj.dsize[1], zobj.dsize[2]).ret : r.px = d.px

\* C18: with buffer=True every call on a 2-d image or an image with at most
\* 4 channels, the first call on a fresh instance included, returns the
\* resized image of the configured size, and the instance's dst then holds
\* that result.
C18_BufferedResize ==
    (/\ zpc \in {"called", "called again"} /\ zobj.buffer
     /\ (zimg.ndim = 2 \/ (zimg.ndim = 3 /\ zimg.ch <= 4))) =>
        /\ IsResizedSample
        /\ zres.ret = {zobj.dst}

\* without the buffer the same calls return the resized image
C18_UnbufferedResize ==
    (/\ zpc \in {"called", "called again"} /\ ~zobj.buffer
     /\ (zimg.ndim = 2 \/ (zimg.ndim = 3 /\ zimg.ch <= 4))) =>
        IsResizedSample

\* C19: for every image with more than 4 channels the call returns, without
\* error, an image with as many channels, each the resize of the matching
\* input channel to the configured size, in the original order.
C19_ManyChannelsResize ==
    (zpc \in {"called", "called again"} /\ zimg.ndim = 3 /\ zimg.ch > 4) =>
        IsResizedSample

(***************************************************************************)
(* Claims about load_transforms, under SpecLoad.                           *)
(***************************************************************************)
ValidStage(stage) ==
    /\ stage.operation # ""
    /\ stage.operation = "Augmentor.Pipeline" => stage.fields = AugmentorFields

\* the operations a valid stage stands for, in order
StageYield(stage) ==
    IF stage.operation # "Augmentor.Pipeline" THEN <<Constructed(stage.operation)>>
    ELSE (IF stage.input_tensor THEN <<Constructed("torchvision.transforms.ToPILImage")>> ELSE <<>>)
         \o <<Constructed("AugmentorWrapper")>>
         \o (IF stage.output_tensor THEN <<Constructed("torchvision.transforms.ToTensor")>> ELSE <<>>)

RECURSIVE StagesYield(_)
StagesYield(stages) ==
    IF stages = <<>> THEN <<>> ELSE StageYield(Head(stages)) \o StagesYield(Tail(stages))

ValidStages ==
    /\ lpc = "loaded" /\ lstages.k = "list"
    /\ \A i \in 1..Len(lstages.items) : ValidStage(lstages.items[i])

\* C20: for every list of stages load_transforms returns one pipeline value,
\* never a tuple: None when there is no stage, the operation itself when the
\* stages yield exactly one, and otherwise a Compose of the operations in
\* stage order.
C20_OnePipelineValue ==
    ValidStages =>
        /\ lres.status = "returned"
        /\ \A r \in lres.ret :
              /\ r.k # "tuple"
              /\ LET ops == StagesYield(lstages.items)
                 IN IF Len(ops) = 0 THEN r = PyNone
                    ELSE IF Len(ops) = 1 THEN r = ops[1]
                    ELSE r.k = "Compose" /\ r.transforms = ops

\* the same, for one stage or more
C20_OnePipelineValueOfStages ==
    (ValidStages /\ Len(lstages.items) > 0) =>
        /\ lres.status = "returned"
        /\ \A r \in lres.ret :
              LET ops == StagesYield(lstages.items)
              IN IF Len(ops) = 1 THEN r = ops[1]
                 ELSE r.k = "Compose" /\ r.transforms = ops

(***************************************************************************)
(* Claims about the grid of Tile, under SpecTile.                          *)
(***************************************************************************)
\* the geometry _get_tile_rects works with on the image at hand
TileGrid == TileGeometry(tileobj, tileimg.img.h, tileimg.img.w)

\* the rects _get_tile_rects returns on the inputs at hand, when it returns
TileRects == CHOOSE r \in GetTileRects(tileobj, tileimg, tilemask).ret : TRUE

\* count_tiles has returned on the inputs at hand
TileCounted == tilepc # "ready" /\ tileres.count.status = "returned"

\* the pixel overlap on axis i, from the resolved tile size and the ratio
TilePixelOverlap(i) ==
    RoundHalfEven(TileGrid.tile_size[i] * tileobj.tile_overlap.n, tileobj.tile_overlap.d)

\* C21 as stated: on each axis the grid step is max(t - overlap, 1) with
\* overlap = round(t * tile_overlap), for odd as well as even overlap.
C21_StepIsSizeMinusOverlap ==
    TileCounted =>
        \A i \in 1..2 :
            TileGrid.step_size[i] = Max(TileGrid.tile_size[i] - TilePixelOverlap(i), 1)

\* C21, amended: on each axis the grid step is max(t - 2 * (overlap div 2), 1),
\* which is max(t - overlap, 1) for an even overlap and max(t - overlap + 1, 1)
\* for an odd one; without a mask, neighbouring rects of a row are one step apart.
C21_StepIsSizeMinusEvenOverlap ==
    TileCounted =>
        /\ \A i \in 1..2 :
              LET t == TileGrid.tile_size[i]
                  overlap == TilePixelOverlap(i)
              IN TileGrid.step_size[i] =
                     IF overlap % 2 = 0 THEN Max(t - overlap, 1) ELSE Max(t - overlap + 1, 1)
        /\ tilemask.kind = "none" =>
              LET rects == TileRects
                  overlap == TilePixelOverlap(1)
              IN \A k \in 1..(Len(rects) - 1) :
                     rects[k + 1][2] = rects[k][2] =>
                         rects[k + 1][1] - rects[k][1] =
                             (IF overlap % 2 = 0
                              THEN Max(rects[k][3] - overlap, 1)
                              ELSE Max(rects[k][3] - overlap + 1, 1))

\* tile size 2 with overlap ratio 1/2: the overlap is 1 pixel and the step is 2
C21_Witness ==
    /\ TileCounted
    /\ tileobj.tile_size = <<PyInt(2), PyInt(2)>>
    /\ tileobj.tile_overlap = PyFloat(1, 2)
    /\ ~tileobj.offset_overlap
    /\ tilemask.kind = "none"
    /\ tileimg.img.w = 3 /\ tileimg.img.h = 2
    /\ TilePixelOverlap(1) = 1
    /\ TileGrid.step_size = <<2, 2>>
    /\ TileRects = <<<<0, 0, 2, 2>>>>

\* rects a and b share no pixel
RectsDisjoint(a, b) ==
    ~(/\ a[1] < b[1] + b[3] /\ b[1] < a[1] + a[3]
      /\ a[2] < b[2] + b[4] /\ b[2] < a[2] + a[4])

\* the grid indices c >= 0 with c * step + size <= extent
GridCells(step, size, extent) == {c \in 0..extent : c * step + size <= extent}

\* the tile size 4 on an image of 8 x 8 pixels, without mask and overlap
EightByEightRects ==
    GetTileRects(TileInit(PyInt(4), PyFloat(0, 1), PyFloat(1, 1), FALSE,
                          "BORDER_CONSTANT", BorderVal),
                 AsArray(TestImage(3, 8, 8)), NoMask).ret

\* C22: without a mask and with offset_overlap false, the rects on an H x W
\* image are exactly (c * sx, r * sy, tw, th) for all r, c >= 0 with
\* c * sx + tw <= W and r * sy + th <= H, listed row-major; with zero overlap
\* they are pairwise disjoint; tile size 4 on 8 x 8 gives (0,0,4,4), (4,0,4,4),
\* (0,4,4,4), (4,4,4,4) in that order.
C22_RegularGridRowMajor ==
    /\ (TileCounted /\ tilemask.kind = "none" /\ ~tileobj.offset_overlap) =>
          LET sx == TileGrid.step_size[1]
              sy == TileGrid.step_size[2]
              tw == TileGrid.tile_size[1]
              th == TileGrid.tile_size[2]
              cols == GridCells(sx, tw, tileimg.img.w)
              rows == GridCells(sy, th, tileimg.img.h)
              rects == TileRects
          IN /\ Len(rects) = Cardinality(rows) * Cardinality(cols)
             /\ tileres.count.ret = {Cardinality(rows) * Cardinality(cols)}
             /\ \A r \in rows : \A c \in cols :
                   rects[r * Cardinality(cols) + c + 1] = <<c * sx, r * sy, tw, th>>
             /\ tileobj.tile_overlap.n = 0 =>
                   \A i \in 1..Len(rects) : \A j \in 1..Len(rects) :
                       i # j => RectsDisjoint(rects[i], rects[j])
    /\ EightByEightRects = {<< <<0, 0, 4, 4>>, <<4, 0, 4, 4>>, <<0, 4, 4, 4>>, <<4, 4, 4, 4>> >>}

\* tile size 1 on an image of 2 x 2 pixels: four disjoint rects, row by row
C22_Witness ==
    /\ TileCounted /\ tilemask.kind = "none" /\ ~tileobj.offset_overlap
    /\ tileobj.tile_size = <<PyInt(1), PyInt(1)>>
    /\ tileobj.tile_overlap.n = 0
    /\ tileimg.img.h = 2 /\ tileimg.img.w = 2
    /\ TileRects = << <<0, 0, 1, 1>>, <<1, 0, 1, 1>>, <<0, 1, 1, 1>>, <<1, 1, 1, 1>> >>
    /\ tileres.count.ret = {4}

\* a mask is given and _get_tile_rects accepts it (lines 1161-1165)
TileMaskUsable ==
    /\ tilemask.kind # "none"
    /\ tilemask.img.h = tileimg.img.h /\ tilemask.img.w = tileimg.img.w
    /\ tilemask.img.ndim = 2

\* the non-zero mask pixels under the tile placed at column col and row row
\* (what lies outside the mask is padded with zeros)
MaskPixelsUnder(col, row) ==
    LET size == TileGrid.tile_size
    IN Cardinality({p \in Pixels(tilemask.img.h, tilemask.img.w) :
                       /\ tilemask.img.px[p] # 0
                       /\ col <= p[2] - 1 /\ p[2] - 1 < col + size[1]
                       /\ row <= p[1] - 1 /\ p[1] - 1 < row + size[2]})

\* the placement at (col, row) covers tile_area * min_mask_iou mask pixels
MeetsMaskRequirement(col, row) ==
    LET size == TileGrid.tile_size
    IN MaskPixelsUnder(col, row) * tileobj.min_mask_iou.d >=
           size[1] * size[2] * tileobj.min_mask_iou.n

\* the placements <<row, col>> of the scan that meet the requirement
ScanHits ==
    LET g == TileGrid
    IN {rc \in (g.overlap_offset[2]..(tileimg.img.h - g.overlap_offset[2] - g.tile_size[2]))
               \X (g.overlap_offset[1]..(tileimg.img.w - g.overlap_offset[1] - g.tile_size[1])) :
           MeetsMaskRequirement(rc[2], rc[1])}

\* the first of them, row-major
FirstHit ==
    LET hits == ScanHits
    IN CHOOSE f \in hits : \A h \in hits : f[1] < h[1] \/ (f[1] = h[1] /\ f[2] <= h[2])

\* the positions offset + ((found - offset) mod step) + i * step on an axis at
\* which a tile of the given size ends within extent - offset
LatticeFrom(found, offset, step, size, extent) ==
    {x \in offset..(extent - offset - size) :
        x >= offset + ((found - offset) % step) /\ (x - found) % step = 0}

\* C23: with a mask, the first placement of the row-major scan that covers
\* tile_area * min_mask_iou non-zero mask pixels fixes the grid anchor
\* offset + ((found - offset) mod step) on each axis; every returned rect
\* covers that many mask pixels; when no placement does, the list is empty
\* and nothing is raised.
C23_MaskAnchorsGrid ==
    /\ (tilepc = "tiled" /\ TileMaskUsable /\ ScanHits = {}) =>
          tileres.call.status = "returned" /\ tileres.call.ret = {<<>>}
    /\ (tilepc = "counted" /\ TileMaskUsable) =>
        LET rects == TileRects
            hits == ScanHits
            found == FirstHit
            g == TileGrid
        IN /\ tileres.count.status = "returned"
           /\ \A i \in 1..Len(rects) : MeetsMaskRequirement(rects[i][1], rects[i][2])
           /\ hits = {} => rects = <<>> /\ tileres.count.ret = {0}
           /\ hits # {} =>
                 {rects[i] : i \in 1..Len(rects)} =
                     {<<xy[1], xy[2], g.tile_size[1], g.tile_size[2]>> :
                         xy \in {p \in LatticeFrom(found[2], g.overlap_offset[1], g.step_size[1],
                                                   g.tile_size[1], tileimg.img.w)
                                       \X LatticeFrom(found[1], g.overlap_offset[2],
                                                      g.step_size[2], g.tile_size[2],
                                                      tileimg.img.h) :
                                    MeetsMaskRequirement(p[1], p[2])}}

\* a mask with two opposite corners set on 2 x 2 pixels: the scan stops at the
\* top-right pixel, the anchor is (0, 0) and the bottom-left tile is returned
C23_Witness ==
    /\ tilepc = "counted" /\ TileMaskUsable
    /\ tileimg.img.h = 2 /\ tileimg.img.w = 2
    /\ tilemask.img = CornersMask(2, 2)
    /\ tileobj.tile_size = <<PyInt(1), PyInt(1)>>
    /\ tileobj.min_mask_iou = PyFloat(1, 1)
    /\ tileobj.tile_overlap.n = 0
    /\ FirstHit = <<0, 1>>
    /\ TileRects = << <<1, 0, 1, 1>>, <<0, 1, 1, 1>> >>

\* an empty mask: nothing meets the requirement and the list is empty
C23_WitnessNoPlacement ==
    /\ tilepc = "tiled" /\ TileMaskUsable
    /\ tileobj.tile_size = <<PyInt(1), PyInt(1)>>
    /\ CountNonZero(tilemask.img) = 0
    /\ ScanHits = {}
    /\ tileres.call.status = "returned" /\ tileres.call.ret = {<<>>}

\* C24: with a mask, whenever the scan finds a placement that meets the mask
\* requirement, the returned list is non-empty and holds a rect at exactly
\* that first accepted placement.
C24_FirstPlacementReturned ==
    (tilepc = "counted" /\ TileMaskUsable /\ ScanHits # {}) =>
        LET rects == TileRects
            found == FirstHit
        IN /\ tileres.count.status = "returned"
           /\ \A n \in tileres.count.ret : n >= 1
           /\ \E i \in 1..Len(rects) :
                 rects[i] = <<found[2], found[1], TileGrid.tile_size[1], TileGrid.tile_size[2]>>

\* tile size 2 with overlap ratio 1/2 and offset_overlap: the scan starts at
\* -1 and its first accepted placement, at column -1, is returned
C24_Witness ==
    /\ tilepc = "counted" /\ TileMaskUsable /\ ScanHits # {}
    /\ tileobj.tile_size = <<PyInt(2), PyInt(2)>>
    /\ tileobj.offset_overlap
    /\ TileGrid.overlap_offset = <<-1, -1>>
    /\ TileGrid.step_size = <<2, 2>>
    /\ FirstHit[2] = -1
    /\ \E i \in 1..Len(TileRects) : TileRects[i][1] = -1 /\ TileRects[i][2] = FirstHit[1]

\* C25: every rect (x, y, w, h) returned, with or without a mask, has (w, h)
\* equal to the resolved tile size and ox <= x, oy <= y, x + w <= W - ox and
\* y + h <= H - oy, with (ox, oy) <= 0 the overlap offset; so with
\* offset_overlap false every tile lies inside the image.
C25_RectsWithinBounds ==
    /\ (tilepc = "counted" /\ tileres.count.status = "returned") =>
          LET g == TileGrid
              ox == g.overlap_offset[1]
              oy == g.overlap_offset[2]
              rects == TileRects
          IN /\ ox <= 0 /\ oy <= 0
             /\ ~tileobj.offset_overlap => ox = 0 /\ oy = 0
             /\ ox = IF tileobj.offset_overlap THEN -((TilePixelOverlap(1) + 1) \div 2) ELSE 0
             /\ oy = IF tileobj.offset_overlap THEN -((TilePixelOverlap(2) + 1) \div 2) ELSE 0
             /\ \A i \in 1..Len(rects) :
                   /\ rects[i][3] = g.tile_size[1] /\ rects[i][4] = g.tile_size[2]
                   /\ ox <= rects[i][1] /\ oy <= rects[i][2]
                   /\ rects[i][1] + rects[i][3] <= tileimg.img.w - ox
                   /\ rects[i][2] + rects[i][4] <= tileimg.img.h - oy
    /\ (tilepc = "tiled" /\ tileres.call.status = "returned") =>
          LET g == TileGrid
          IN \A tiles \in tileres.call.ret : \A i \in 1..Len(tiles) :
                 tiles[i].w = g.tile_size[1] /\ tiles[i].h = g.tile_size[2]

\* offset_overlap with a one-pixel overlap: the first tile starts at (-1, -1),
\* inside the image padded by one pixel
C25_Witness ==
    /\ tilepc = "tiled" /\ tileres.call.status = "returned"
    /\ tileobj.offset_overlap
    /\ TileGrid.overlap_offset = <<-1, -1>>
    /\ Len(TileRects) >= 1
    /\ TileRects[1] = <<-1, -1, 2, 2>>
    /\ \E tiles \in tileres.call.ret : Len(tiles) = Len(TileRects)

(***************************************************************************)
(* Claims about the construction of Tile, under SpecTile.                  *)
(***************************************************************************)
\* C26: every successfully constructed Tile has both tile_size components
\* strictly positive, 0 <= tile_overlap < 1 and 0 <= min_mask_iou <= 1; any
\* other value raises at construction.
C26_ConstructedTileIsValid ==
    tileobj.ok =>
        /\ \A i \in 1..2 : tileobj.tile_size[i].n > 0
        /\ 0 <= tileobj.tile_overlap.n /\ tileobj.tile_overlap.n < tileobj.tile_overlap.d
        /\ 0 <= tileobj.min_mask_iou.n /\ tileobj.min_mask_iou.n <= tileobj.min_mask_iou.d

\* the part of it the constructor does enforce: the overlap ratio
C26_OverlapIsChecked ==
    tileobj.ok =>
        /\ IsFloat(tileobj.tile_overlap)
        /\ 0 <= tileobj.tile_overlap.n /\ tileobj.tile_overlap.n < tileobj.tile_overlap.d

(***************************************************************************)
(* Claims about the sampling loop of RandomResizedCrop, under SpecRRC.     *)
(***************************************************************************)
\* the sampling loop of the call at hand has placed a region
RRCPlaced == rpc \in {"crop", "done"} /\ rloop.gate = "applied" /\ rloop.col.k # "none"

\* C27: the sampling loop makes at most random_attempts attempts and stops at
\* the first one whose region has width <= W and height <= H; its top-left
\* then has 0 <= col <= W - width and 0 <= row <= H - height, so the region
\* lies inside the image and is extracted without border padding.
C27_RegionInsideImage ==
    /\ rpc \in {"loop", "crop", "done"} => rloop.attempt <= robj.random_attempts
    /\ rpc = "loop" => rloop.attempt < robj.random_attempts /\ rloop.col.k = "none"
    /\ RRCPlaced =>
          /\ rloop.attempt < robj.random_attempts
          /\ rloop.width.n <= rimg.w /\ rloop.height.n <= rimg.h
          /\ 0 <= rloop.col.n /\ rloop.col.n <= rimg.w - rloop.width.n
          /\ 0 <= rloop.row.n /\ rloop.row.n <= rimg.h - rloop.height.n
          /\ rpc = "done" =>
                LET out == RRCOutputDims(robj, rimg.h, rimg.w)
                IN rres = CvResize(Slice2D(rimg, rloop.row.n, rloop.row.n + rloop.height.n,
                                           rloop.col.n, rloop.col.n + rloop.width.n),
                                   out[1], out[2])

\* the first attempt does not fit, the second one places a region of 2 x 1
\* pixels at column 1 of an image of 3 x 1 pixels
C27_Witness ==
    /\ RRCPlaced /\ rpc = "done"
    /\ robj.random_attempts = 2 /\ rloop.attempt = 1
    /\ rimg.w = 3 /\ rimg.h = 1
    /\ rloop.width = PyInt(2) /\ rloop.height = PyInt(1)
    /\ rloop.col = PyInt(1) /\ rloop.row = PyInt(0)
    /\ rres.status = "returned"

(***************************************************************************)
(* Claims about errors and probabilities of the wrappers, under            *)
(* SpecWrapper.                                                            *)
(***************************************************************************)
\* the wrapped operation raised during a call of ImageTransformWrapper on a list
WrappedOperationRaised ==
    /\ wpc = "called" /\ wobj.kind = "ImageTransformWrapper"
    /\ wsamples.k = "list"
    /\ wres.status = "raised" /\ wres.err = "wrapped operation failed"

\* C28: if the wrapped operation raises on the i-th image of a list passed
\* to ImageTransformWrapper, the call raises and the caller's list still
\* holds its n original images.
C28_RaiseLeavesListIntact ==
    WrappedOperationRaised => wres.ret = {} /\ wres.caller = wsamples

\* the part of it that holds: nothing is returned, and the images from the
\* failing one on are those the caller passed, up to the conversion to PIL
C28_RaiseReturnsNothing ==
    WrappedOperationRaised =>
        /\ wres.ret = {}
        /\ Len(wres.caller.items) = Len(wsamples.items)
        /\ \A i \in 1..Len(wsamples.items) :
              i >= 2 => wres.caller.items[i].applied = wsamples.items[i].applied

\* how many operations the images of a returned value went through
AppliedCounts(value) ==
    IF value.k = "none" THEN {}
    ELSE IF value.k = "list" THEN {value.items[i].applied : i \in 1..Len(value.items)}
    ELSE {value.applied}

\* C30: a probability of 0 means never: for every outcome of the draw,
\* ImageTransformWrapper built with probability 0 returns its samples without
\* applying the wrapped operation, and AugmentorWrapper never performs an
\* operation whose probability is 0.
C30_ZeroProbabilityNeverApplies ==
    (wpc = "called" /\ wres.status = "returned") =>
        /\ (wobj.kind = "ImageTransformWrapper" /\ wobj.probability.n = 0) =>
              wres.ret = {wsamples}
        /\ wobj.kind = "AugmentorWrapper" =>
              \A value \in wres.ret : \A a \in AppliedCounts(value) :
                  a <= Cardinality({j \in 1..Len(wobj.operations) :
                                       wobj.operations[j].n > 0})

\* what the gate does guarantee: a call never applies more operations than
\* it has, and ImageTransformWrapper applies its operation at most once
C30_AppliesAtMostOnce ==
    (wpc = "called" /\ wres.status = "returned") =>
        \A value \in wres.ret : \A a \in AppliedCounts(value) :
            a <= IF wobj.kind = "AugmentorWrapper" THEN Len(wobj.operations) ELSE 1

(***************************************************************************)
(* Claims about a pipeline shared by two workers, under SpecShared.        *)
(***************************************************************************)
\* no stage of the pipeline is a Resize built with buffer=True
NoBufferedResize ==
    \A k \in 1..Len(sbuilt) : sbuilt[k].cls = "Resize" => ~sbuilt[k].self.buffer

\* what worker w's call gives when it runs alone on the pipeline as built
RunAlone(w) ==
    IF swork[w].mode = "call" THEN ComposeCallAlone(sbuilt, 1, swork[w].sample)
    ELSE ComposeInvertAlone(sbuilt, Len(sbuilt), swork[w].sample)

====
